---------------------------- MODULE Spec2Model ----------------------------
(***************************************************************************)
(* The change cache of sync_gateway (db/change_cache.go): the sequence     *)
(* buffer that turns the out-of-order feed into an in-order stream, its    *)
(* pending heap, its skipped-sequence list, the fan-out to the channel     *)
(* caches and the two housekeeping tasks.                                  *)
(*                                                                         *)
(* Granularity.  The coordinator lock c.lock serialises processEntry,      *)
(* CleanUp, Clear, Stop and EnableChannelIndexing, so each of them is one  *)
(* step.  The exception is the branch of processEntry for a sequence below *)
(* nextSequence: it reads the skipped list (WasSkipped) and, after         *)
(* _addToCache, writes it (RemoveSkipped), and CleanSkippedSequenceQueue   *)
(* works on the skipped list without the coordinator lock, so that branch  *)
(* is two steps with the lock held in between.  Time is a discrete clock   *)
(* `now`; time.Now() reads it and time.Since(t) is now - t.                *)
(***************************************************************************)
EXTENDS Integers, Sequences, FiniteSets, TLC

\* ------------------------------------------------------------------ bounds
MaxSeq == 5                      \* the backing store has allocated sequences 1..MaxSeq
CachePendingSeqMaxNum == 1       \* options.CachePendingSeqMaxNum
CachePendingSeqMaxWait == 1      \* options.CachePendingSeqMaxWait, in clock ticks
CacheSkippedSeqMaxWait == 1      \* options.CacheSkippedSeqMaxWait, in clock ticks
SkippedSeqCleanViewBatch == 2    \* sequences per backing-store query
ChannelCacheMaxLength == 4       \* entries a channel cache keeps after pruneCache
\* the clock stops here: late enough for a pending entry to time out and the
\* sequence skipped for it to expire
MaxTime == CachePendingSeqMaxWait + CacheSkippedSeqMaxWait + 1

Seqs == 1..MaxSeq
InitialSeqs == {0, 1}            \* what context.LastSequence() may return at Start
EnableStarChannelLog == TRUE
UserStarChannel == "*"
Channels == {"A", "B"}           \* the channels documents are assigned to
AllChannels == Channels \cup {UserStarChannel}
Producers == {"p1", "p2"}        \* concurrent DocChangedSynchronous calls
\* the feed task that the sequence markers and the principal documents come
\* to (their keys are on one partition of the store); documents come to both
MarkerProducers == {"p1"}
Tasks == Producers \cup {"skipclean"}     \* the tasks that call processEntry
\* What the backing store holds, which is what the feed and the channel view
\* can deliver: the sequence before the last was allocated and never used for
\* a document, the other sequences are document revisions, of a document in
\* channel A or, for the second, in either channel
DocSeqs == {s \in Seqs : s # MaxSeq - 1}
DocChannels(seq) == IF seq = 2 THEN Channels ELSE {"A"}
PrincipalSeqs == {1}             \* sequences of principal (_user/) documents
UnusedSeqs == {3}                \* unusedSeq:<n> markers on the feed
UnusedRanges == {<<2, 4>>}       \* unusedSeqs:from:<a>:to:<b> markers on the feed
NoEntry == [Sequence |-> 0, DocID |-> "", Channels |-> <<>>, Skipped |-> FALSE, TimeReceived |-> 0]

VARIABLES
    lock,            \* holder of c.lock: "none", "init", the task in processEntry, or
                     \* "cleanup", the pending-timeout task in CleanUp's listener call
    cur,             \* the LogEntry the holder is processing
    ret,             \* the changedChannels the holder will return
    lateAt,          \* the channel _addToCache is at, between its addToCache and
                     \* its AddLateSequence call for a skipped entry; "" otherwise
    logsDisabled, stopped, terminated,
    nextSequence, initialSequence, receivedSeqs,
    pendingLogs,     \* the heap, as the set of its LogEntries (sequences are unique)
    channelCaches,   \* channel name -> [validFrom, logs, late]
    skippedSeqs,     \* the list, head first, of [seq, timeAdded]
    abandoned_seqs,  \* dbExpvars "abandoned_seqs"
    now,             \* the clock
    reader,          \* a changes feed's call of GetChanges or GetCachedChanges: the
                     \* call, where it stands, and what it returned
    pc,              \* per task: "idle", "call" (in processEntry), "wait" (between calls)
    todo,            \* per task: the LogEntries still to submit
    kind,            \* per producer: the event being handled
    pcU,             \* pending-timeout task: "select", "exited"
    pcS,             \* skipped-sequence task: "select", "process", "exited"
    pendingRemovals,
    snapshot,        \* the expired sequences the sweep under way started from
                     \* (history, read by the properties only)
    failedSeqs,      \* the sequences of the batches whose query failed in the sweep
                     \* under way (history, read by the properties only)
    \* history, read by the properties only
    applied,         \* sequence -> number of _addToCache calls made for it
    cacheCalls,      \* channel -> the calls of channelCache.addToCache _addToCache made,
                     \* in order: [Sequence, Skipped], Skipped ones go to AddLateSequence too
    abandoned,       \* sequences RemoveSkippedSequences removed
    accepted,        \* sequence -> the kind of LogEntry processEntry accepted for it
    dropped,         \* who had processEntry ignore a duplicate: "feed", "heal"
    notified,        \* per producer: channels its unused-range event notified the listener of
    evStat,          \* per producer: what the calls of its unused-range event did so far
    fn               \* a call of one of the package's functions on its own: the
                     \* arguments, how far it got, and what it returned

coordVars == <<logsDisabled, stopped, terminated, nextSequence, initialSequence,
               receivedSeqs, pendingLogs, channelCaches>>
lockVars == <<lock, cur, ret, lateAt>>
skipVars == <<skippedSeqs, abandoned_seqs>>
taskVars == <<pc, todo, kind>>
bgVars == <<pcU, pcS, pendingRemovals, failedSeqs, snapshot>>
histVars == <<applied, cacheCalls, abandoned, accepted, dropped, notified, evStat>>
vars == <<coordVars, lockVars, skipVars, taskVars, bgVars, histVars, now, reader, fn>>

\* ---------------------------------------------------------------- helpers
SetMin(S) == CHOOSE x \in S : \A y \in S : x <= y
Range(s) == {s[i] : i \in 1..Len(s)}

\* LogEntry constructors
Placeholder(seq) == [Sequence |-> seq, DocID |-> "", Channels |-> <<>>,
                     Skipped |-> FALSE, TimeReceived |-> 0]
DocEntry(seq, ch) == [Sequence |-> seq, DocID |-> "doc", Channels |-> (ch :> 0),
                      Skipped |-> FALSE, TimeReceived |-> 0]
PrincipalEntry(seq) == [Sequence |-> seq, DocID |-> "_user/x", Channels |-> <<>>,
                        Skipped |-> FALSE, TimeReceived |-> 0]

\* what a LogEntry is: its document (none for a placeholder) and its channels
EntryKind(change) == [doc |-> change.DocID, channels |-> DOMAIN change.Channels]

\* a faulty reading of LastSequence: the next sequence itself
LastSequence_next == nextSequence

\* func (c *changeCache) LastSequence
LastSequence == nextSequence - 1

\* ------------------------------------------------------ skipped sequences
SkippedSet(l) == {l[i].seq : i \in 1..Len(l)}

\* func (l *SkippedSequenceList) Contains, through changeCache.WasSkipped
WasSkipped(x) == x \in SkippedSet(skippedSeqs)

\* a faulty Push: the element is put at the front
Push_front(l, x) == <<x>> \o l

\* func (l *SkippedSequenceList) Push: appends, refusing a sequence that is not
\* above the tail's
Push(l, x) ==
    IF l = <<>> \/ l[Len(l)].seq < x.seq THEN Append(l, x) ELSE l

\* a faulty PushSkipped: the sequence is not recorded
PushSkipped_dropped(l, sequence) == l

\* func (c *changeCache) PushSkipped
PushSkipped(l, sequence) == Push(l, [seq |-> sequence, timeAdded |-> now])

\* a faulty Remove: the list is left as it is
Remove_noop(l, x) == l

\* func (l *SkippedSequenceList) Remove: the list without x (an error when absent)
Remove(l, x) == SelectSeq(l, LAMBDA e : e.seq # x)

\* func (l *SkippedSequenceList) getOldest
getOldest(l) == IF l = <<>> THEN 0 ELSE l[1].seq

\* func (l *SkippedSequenceList) getOlderThan: the prefix of expired sequences
RECURSIVE getOlderThan(_, _)
getOlderThan(l, skippedExpiry) ==
    IF l = <<>> THEN <<>>
    ELSE IF now - l[1].timeAdded > skippedExpiry
         THEN <<l[1].seq>> \o getOlderThan(Tail(l), skippedExpiry)
         ELSE <<>>

\* a faulty RemoveSkippedSequences: it counts every sequence it was given
RemoveSkippedSequences_countAll(l, sequences) ==
    [list |-> SelectSeq(l, LAMBDA e : e.seq \notin {sequences[i] : i \in 1..Len(sequences)}),
     removedCount |-> Len(sequences)]

\* func (c *changeCache) RemoveSkippedSequences: the list afterwards and the
\* number of sequences that were found in it and removed
RECURSIVE RemoveSkippedSequences(_, _)
RemoveSkippedSequences(l, sequences) ==
    IF sequences = <<>> THEN [list |-> l, removedCount |-> 0]
    ELSE LET seq == Head(sequences)
             found == seq \in SkippedSet(l)
             rest == RemoveSkippedSequences(Remove(l, seq), Tail(sequences))
         IN  [list |-> rest.list,
              removedCount |-> rest.removedCount + (IF found THEN 1 ELSE 0)]

\* ---------------------------------------------------------- channel caches
\* newChannelCacheWithOptions, as _getChannelCache calls it
NewChannelCache == [validFrom |-> initialSequence + 1, logs |-> <<>>, late |-> <<>>]

\* func (c *changeCache) _getChannelCache: the cache of a channel, created on demand
GetChannelCache(caches, name) ==
    IF name \in DOMAIN caches THEN caches ELSE (name :> NewChannelCache) @@ caches

CachedEntry(change, isRemoval) ==
    [Sequence |-> change.Sequence, DocID |-> change.DocID,
     Skipped |-> change.Skipped, Removed |-> isRemoval]

\* channelCache.addToCache: insert in sequence order
InsertSorted(logs, e) ==
    LET lower == SelectSeq(logs, LAMBDA x : x.Sequence < e.Sequence)
        upper == SelectSeq(logs, LAMBDA x : x.Sequence >= e.Sequence)
    IN  lower \o <<e>> \o upper

ChannelAddToCache(caches, name, change, isRemoval) ==
    LET cs == GetChannelCache(caches, name)
    IN  [cs EXCEPT ![name].logs = InsertSorted(@, CachedEntry(change, isRemoval))]

\* channelCache.AddLateSequence: append to the late queue (the tag is the position)
ChannelAddLateSequence(caches, name, change) ==
    [caches EXCEPT ![name].late = Append(@, change.Sequence)]

\* channelCache.pruneCache: drop the oldest entries beyond the maximum length
\* and move validFrom past them (the maximum age lies beyond MaxTime)
PruneOne(cc) ==
    IF Len(cc.logs) <= ChannelCacheMaxLength THEN cc
    ELSE LET drop == Len(cc.logs) - ChannelCacheMaxLength
         IN  [cc EXCEPT !.validFrom = cc.logs[drop].Sequence + 1,
                        !.logs = SubSeq(cc.logs, drop + 1, Len(cc.logs))]

pruneCache(caches) == [name \in DOMAIN caches |-> PruneOne(caches[name])]

LogSeqs(name) ==
    IF name \in DOMAIN channelCaches
    THEN [i \in 1..Len(channelCaches[name].logs) |-> channelCaches[name].logs[i].Sequence]
    ELSE <<>>
LateSeqs(name) == IF name \in DOMAIN channelCaches THEN channelCaches[name].late ELSE <<>>

\* ------------------------------------------------------------- _addToCache
\* a faulty _addToCache: a removal does not keep the entry out of the channel
TargetChannels_removedToo(change) == DOMAIN change.Channels

\* the channels _addToCache inserts a change into: listed without a removal,
\* or removed at the change's own sequence
TargetChannels(change) ==
    {name \in DOMAIN change.Channels :
        change.Channels[name] = 0 \/ change.Channels[name] = change.Sequence}

\* a faulty _addToCache: the star channel is left out
FanOutChannels_noStar(change) == TargetChannels(change)

FanOutChannels(change) ==
    TargetChannels(change) \cup (IF EnableStarChannelLog THEN {UserStarChannel} ELSE {})

IsRemoval(change, name) == name \in DOMAIN change.Channels /\ change.Channels[name] # 0

\* the loop of _addToCache over the channels, and the star channel
RECURSIVE FanOut(_, _, _)
FanOut(caches, change, names) ==
    IF names = {} THEN caches
    ELSE LET name == CHOOSE n \in names : TRUE
             added == ChannelAddToCache(caches, name, change, IsRemoval(change, name))
             late == IF change.Skipped THEN ChannelAddLateSequence(added, name, change)
                     ELSE added
         IN  FanOut(late, change, names \ {name})

\* a faulty first statement of _addToCache: nextSequence moves one too far
AdvanceNext_plusTwo(next, change) ==
    IF change.Sequence >= next THEN change.Sequence + 2 ELSE next

\* a faulty first statement of _addToCache: nextSequence follows every change
AdvanceNext_unguarded(next, change) == change.Sequence + 1

\* _addToCache's first statement
AdvanceNext(next, change) == IF change.Sequence >= next THEN change.Sequence + 1 ELSE next

\* The part of the cache processEntry and CleanUp work on, as a record: the
\* operators below take it and return it changed, with the channels changed
\* so far.
Coord == [next |-> nextSequence, pending |-> pendingLogs, caches |-> channelCaches,
          skipped |-> skippedSeqs, changed |-> {}, applied |-> applied,
          calls |-> cacheCalls]

\* the calls of channelCache.addToCache (and, for a skipped entry, of
\* AddLateSequence) that _addToCache makes for a change, appended to the log
Called(calls, change) ==
    [name \in AllChannels |->
        IF name \in FanOutChannels(change)
        THEN Append(calls[name], [Sequence |-> change.Sequence, Skipped |-> change.Skipped])
        ELSE calls[name]]

\* a faulty _addToCache: a placeholder is fanned out like a document
addToCache_placeholderFanOut(d, change) ==
    [d EXCEPT !.next = AdvanceNext(@, change),
              !.applied[change.Sequence] = @ + 1,
              !.caches = FanOut(@, change, FanOutChannels(change)),
              !.calls = Called(@, change),
              !.changed = @ \cup FanOutChannels(change)]

\* func (c *changeCache) _addToCache
addToCache(d, change) ==
    LET placeholder == change.DocID = ""
    IN  [d EXCEPT !.next = AdvanceNext(@, change),
                  !.applied[change.Sequence] = @ + 1,
                  !.caches = IF placeholder THEN @
                             ELSE FanOut(@, change, FanOutChannels(change)),
                  !.calls = IF placeholder THEN @ ELSE Called(@, change),
                  !.changed = IF placeholder THEN @ ELSE @ \cup FanOutChannels(change)]

\* ---------------------------------------------------------- _addPendingLogs
\* c.pendingLogs[0]: the entry with the lowest sequence
PendingHead(pending) ==
    CHOOSE e \in pending : \A f \in pending : e.Sequence <= f.Sequence

\* a faulty isNext: the head of the heap is never taken for the next sequence
isNext_never(change, next) == FALSE

isNext(change, next) == change.Sequence = next

\* a faulty condition: the wait of the head is not looked at
GiveUp_countOnly(pending) == Cardinality(pending) > CachePendingSeqMaxNum

\* a faulty condition: one pending entry too many is let wait
GiveUp_offByOne(pending) ==
    \/ Cardinality(pending) > CachePendingSeqMaxNum + 1
    \/ now - PendingHead(pending).TimeReceived >= CachePendingSeqMaxWait

\* a faulty condition: the head is let wait one tick longer
GiveUp_strictWait(pending) ==
    \/ Cardinality(pending) > CachePendingSeqMaxNum
    \/ now - PendingHead(pending).TimeReceived > CachePendingSeqMaxWait

\* a faulty condition: the number of pending entries is not looked at
GiveUp_timeOnly(pending) ==
    now - PendingHead(pending).TimeReceived >= CachePendingSeqMaxWait

\* the condition under which _addPendingLogs gives up waiting for nextSequence
GiveUp(pending) ==
    \/ Cardinality(pending) > CachePendingSeqMaxNum
    \/ now - PendingHead(pending).TimeReceived >= CachePendingSeqMaxWait

\* func (c *changeCache) _addPendingLogs
RECURSIVE addPendingLogs(_)
addPendingLogs(d) ==
    IF d.pending = {} THEN d
    ELSE LET change == PendingHead(d.pending)
         IN  IF isNext(change, d.next)
             THEN addPendingLogs(addToCache([d EXCEPT !.pending = @ \ {change}], change))
             ELSE IF GiveUp(d.pending)
             THEN addPendingLogs([d EXCEPT !.skipped = PushSkipped(@, d.next),
                                           !.next = @ + 1])
             ELSE d

PendingSeqs == {e.Sequence : e \in pendingLogs}

\* an unused-range event before its first call: every call so far found its
\* sequence to be nextSequence with nothing pending (ok), the calls advanced
\* nextSequence by `advanced`, and a call added an entry to a channel cache
NoStat == [ok |-> TRUE, advanced |-> 0, cachesChanged |-> FALSE]

\* ------------------------------------------------------------ change access
\* channelCache.GetChanges and getCachedChanges with options.Since = 0: the
\* sequences of the entries the channel's cache holds
CachedChanges(caches, name) ==
    [i \in 1..Len(caches[name].logs) |-> caches[name].logs[i].Sequence]

\* no call was made yet
NoRead == [op |-> "none", channel |-> "", at |-> "idle", afterStop |-> FALSE,
           error |-> 0, entries |-> <<>>]

\* no function is being called on its own
NoCall == [op |-> "none"]

\* -------------------------------------------------------------------- Init
\* The state Init() leaves: the cache is locked until Start.
CacheInit ==
    /\ lock = "init" /\ cur = NoEntry /\ ret = {} /\ lateAt = ""
    /\ logsDisabled = FALSE /\ stopped = FALSE /\ terminated = FALSE
    /\ nextSequence = 0 /\ initialSequence = 0 /\ receivedSeqs = {}
    /\ pendingLogs = {} /\ channelCaches = <<>>
    /\ skippedSeqs = <<>> /\ abandoned_seqs = 0
    /\ now = 0 /\ reader = NoRead
    /\ pc = [t \in Tasks |-> "idle"]
    /\ todo = [t \in Tasks |-> <<>>]
    /\ kind = [p \in Producers |-> "none"]
    /\ pcU = "select" /\ pcS = "select" /\ pendingRemovals = <<>> /\ failedSeqs = {}
    /\ snapshot = <<>>
    /\ applied = [s \in Seqs |-> 0] /\ abandoned = {} /\ accepted = <<>>
    /\ cacheCalls = [name \in AllChannels |-> <<>>]
    /\ dropped = {}
    /\ notified = [p \in Producers |-> {}]
    /\ evStat = [p \in Producers |-> NoStat]

Init == CacheInit /\ fn = NoCall

\* func (c *changeCache) Start, with _setInitialSequence
Start ==
    /\ lock = "init"
    /\ \E lastSequence \in InitialSeqs :
         /\ initialSequence' = lastSequence
         /\ nextSequence' = lastSequence + 1
    /\ lock' = "none"
    /\ UNCHANGED <<cur, ret, lateAt>>
    /\ UNCHANGED <<logsDisabled, stopped, terminated, receivedSeqs, pendingLogs, channelCaches>>
    /\ UNCHANGED <<skipVars, taskVars, bgVars, histVars, now, reader, fn>>

\* func (c *changeCache) Start when context.LastSequence() returns an error:
\* the deferred Unlock releases the lock, _setInitialSequence was not called
StartFails ==
    /\ lock = "init"
    /\ lock' = "none"
    /\ UNCHANGED <<cur, ret, lateAt>>
    /\ UNCHANGED <<coordVars, skipVars, taskVars, bgVars, histVars, now, reader, fn>>

\* the clock advances.  Only the age of a pending entry and of a skipped
\* sequence is ever read, so the clock is let run while one of them waits.
Tick ==
    /\ lock # "init"
    /\ pendingLogs # {} \/ skippedSeqs # <<>>
    /\ now < MaxTime
    /\ now' = now + 1
    /\ UNCHANGED <<coordVars, lockVars, skipVars, taskVars, bgVars, histVars, reader, fn>>

\* ------------------------------------------------------------ processEntry
\* a faulty processEntry: receivedSeqs is not consulted
Branch_noDuplicateCheck(change) ==
    IF logsDisabled THEN "disabled"
    ELSE IF change.Sequence = nextSequence \/ nextSequence = 0 THEN "next"
    ELSE IF change.Sequence > nextSequence THEN "pending"
    ELSE IF change.Sequence > initialSequence THEN "late"
    ELSE "old"

\* a faulty processEntry: logsDisabled is not consulted
Branch_ignoresDisabled(change) ==
    IF change.Sequence \in receivedSeqs THEN "duplicate"
    ELSE IF change.Sequence = nextSequence \/ nextSequence = 0 THEN "next"
    ELSE IF change.Sequence > nextSequence THEN "pending"
    ELSE IF change.Sequence > initialSequence THEN "late"
    ELSE "old"

\* the case processEntry takes for a change
Branch(change) ==
    IF logsDisabled THEN "disabled"
    ELSE IF change.Sequence \in receivedSeqs THEN "duplicate"
    ELSE IF change.Sequence = nextSequence \/ nextSequence = 0 THEN "next"
    ELSE IF change.Sequence > nextSequence THEN "pending"
    ELSE IF change.Sequence > initialSequence THEN "late"
    ELSE "old"

\* a faulty late case: the entry is not flagged
LateEntry_unflagged(change) == change

\* a faulty late case: every late entry is flagged, skipped or not
LateEntry_flagged(change) == [change EXCEPT !.Skipped = TRUE]

\* the entry of the late case: flagged when its sequence is in the skipped list
LateEntry(change) ==
    IF WasSkipped(change.Sequence) THEN [change EXCEPT !.Skipped = TRUE] ELSE change

\* what processEntry makes of the cache, up to its return or, in the late
\* case, up to the return of _addToCache
Result(change) ==
    LET b == Branch(change)
        pushed == [Coord EXCEPT !.pending = @ \cup {change}]
    IN  IF b = "next" THEN addPendingLogs(addToCache(Coord, change))
        ELSE IF b = "pending"
        THEN (IF Cardinality(pushed.pending) > CachePendingSeqMaxNum
              THEN addPendingLogs(pushed) ELSE pushed)
        ELSE IF b = "late" THEN addToCache(Coord, LateEntry(change))
        ELSE Coord

\* processEntry returns in the same step, unless it is the late case
Returns(change) == Branch(change) # "late"

Source(t) == IF t \in Producers THEN "feed" ELSE "heal"

\* func (c *changeCache) processEntry, called by task t.  In the late case the
\* step ends after _addToCache, with the lock held; RemoveSkipped follows.
processEntry(t, change) ==
    /\ lock = "none"
    /\ \E b \in {Branch(change)} : \E d \in {Result(change)} :
        LET isNew == b \notin {"disabled", "duplicate"}
        IN
        /\ nextSequence' = d.next
        /\ pendingLogs' = d.pending
        /\ channelCaches' = d.caches
        /\ skippedSeqs' = d.skipped
        /\ applied' = d.applied
        /\ cacheCalls' = d.calls
        /\ receivedSeqs' = IF isNew THEN receivedSeqs \cup {change.Sequence} ELSE receivedSeqs
        /\ accepted' = IF isNew THEN (change.Sequence :> EntryKind(change)) @@ accepted
                       ELSE accepted
        /\ dropped' = IF b = "duplicate" THEN dropped \cup {Source(t)} ELSE dropped
        /\ IF b = "late"
           THEN /\ lock' = t /\ cur' = LateEntry(change) /\ ret' = d.changed
                /\ lateAt' = lateAt
           ELSE UNCHANGED lockVars
        /\ UNCHANGED <<logsDisabled, stopped, terminated, initialSequence>>
        /\ UNCHANGED <<abandoned_seqs, abandoned, now, reader, fn>>

\* the events that call processEntry in a loop and notify the listener once,
\* of the channels all their calls changed
LoopKinds == {"range", "recent"}

\* ------------------------------------------------------------ feed events
\* The caller of processEntry in a feed task that handles an event of kind k:
\* where it stands after the call.  processUnusedSequenceRange goes on to its
\* next sequence; releaseUnusedSequence has notified the listener of the
\* changed channels when there are any.
AfterReturn(p, k, changed, soFar) ==
    /\ pc' = [pc EXCEPT ![p] = IF k \in LoopKinds THEN "wait" ELSE "idle"]
    /\ kind' = [kind EXCEPT ![p] = IF k \in LoopKinds THEN k ELSE "none"]
    /\ notified' = [notified EXCEPT ![p] = IF k \in LoopKinds THEN soFar \cup changed ELSE soFar]

\* the call of processEntry(change) by feed task p, and what follows it when
\* it returns in the same step
Call(p, k, change, soFar, stat) ==
    /\ processEntry(p, change)
    /\ IF Returns(change)
       THEN AfterReturn(p, k, Result(change).changed, soFar)
       ELSE /\ pc' = [pc EXCEPT ![p] = "call"]
            /\ kind' = [kind EXCEPT ![p] = k]
            /\ notified' = [notified EXCEPT ![p] = soFar]
    /\ evStat' = [evStat EXCEPT ![p] =
                    IF k # "range" THEN NoStat
                    ELSE [ok |-> stat.ok /\ Branch(change) = "next" /\ pendingLogs = {},
                          advanced |-> stat.advanced + (Result(change).next - nextSequence),
                          cachesChanged |-> stat.cachesChanged
                                            \/ Result(change).calls # cacheCalls]]
    /\ UNCHANGED bgVars

RECURSIVE RangeEntries(_, _)
RangeEntries(from, to) ==
    IF from > to THEN <<>> ELSE <<Placeholder(from)>> \o RangeEntries(from + 1, to)

\* a task starts an event of kind k that submits `entries`: the first
\* processEntry call is made at once
BeginEvent(p, k, entries) ==
    LET change == [entries[1] EXCEPT !.TimeReceived = now]
    IN  /\ pc[p] = "idle"
        /\ Call(p, k, change, {}, NoStat)
        /\ todo' = [todo EXCEPT ![p] = Tail(entries)]

\* func (c *changeCache) DocChangedSynchronous, a document with sync metadata
\* in one channel; one whose sequence is not above initialSequence is dropped
DocChanged(p) ==
    \E seq \in DocSeqs : \E ch \in DocChannels(seq) :
        /\ seq > initialSequence
        /\ BeginEvent(p, "doc", <<DocEntry(seq, ch)>>)

\* func (c *changeCache) processUnusedSequence
processUnusedSequence(p) ==
    \E seq \in UnusedSeqs :
        /\ pc[p] = "idle"
        /\ BeginEvent(p, "unused", <<Placeholder(seq)>>)

\* func (c *changeCache) processUnusedSequenceRange
processUnusedSequenceRange(p) ==
    \E r \in UnusedRanges :
        /\ r[1] <= r[2]
        /\ BeginEvent(p, "range", RangeEntries(r[1], r[2]))

\* func (c *changeCache) processPrincipalDoc
processPrincipalDoc(p) ==
    \E seq \in PrincipalSeqs :
        /\ seq > initialSequence
        /\ BeginEvent(p, "principal", <<PrincipalEntry(seq)>>)

\* processUnusedSequenceRange, the next sequence of its loop
Submit(p) ==
    LET change == [Head(todo[p]) EXCEPT !.TimeReceived = now]
    IN  /\ pc[p] = "wait" /\ todo[p] # <<>>
        /\ Call(p, "range", change, notified[p], evStat[p])
        /\ todo' = [todo EXCEPT ![p] = Tail(@)]

\* processUnusedSequenceRange returns after its last sequence
FinishRange(p) ==
    /\ pc[p] = "wait" /\ todo[p] = <<>>
    /\ pc' = [pc EXCEPT ![p] = "idle"]
    /\ kind' = [kind EXCEPT ![p] = "none"]
    /\ notified' = [notified EXCEPT ![p] = {}]
    /\ evStat' = [evStat EXCEPT ![p] = NoStat]
    /\ UNCHANGED <<coordVars, lockVars, skipVars, todo, bgVars, now, reader, fn>>
    /\ UNCHANGED <<applied, cacheCalls, abandoned, accepted, dropped>>

\* _addToCache, the channels of its loop (the star channel included) that the
\* entry the lock holder is processing has not been added to yet
FanOutRemaining ==
    IF lock \in Tasks /\ cur.DocID # "" THEN FanOutChannels(cur) \ ret ELSE {}

\* processEntry, late case: c.RemoveSkipped(sequence) after _addToCache, the
\* deferred Unlock, and the return to the caller
RemoveSkipped ==
    /\ lock \in Tasks /\ lateAt = "" /\ FanOutRemaining = {}
    /\ skippedSeqs' = Remove(skippedSeqs, cur.Sequence)
    /\ lock' = "none" /\ cur' = NoEntry /\ ret' = {} /\ lateAt' = lateAt
    /\ IF lock \in Producers
       THEN AfterReturn(lock, kind[lock], ret, notified[lock])
       ELSE /\ pc' = [pc EXCEPT ![lock] = "idle"]
            /\ UNCHANGED <<kind, notified>>
    /\ UNCHANGED <<coordVars, abandoned_seqs, todo, bgVars, now, reader, fn>>
    /\ UNCHANGED <<applied, cacheCalls, abandoned, accepted, dropped, evStat>>

\* ---------------------------------------------- the late case, call by call
\* processEntry's late case up to the first statements of _addToCache: the lock
\* is taken, the sequence recorded as received, the entry flagged when its
\* sequence is in the skipped list; no channel has been added to yet
LateCall(p, change) ==
    /\ lock = "none" /\ pc[p] = "idle" /\ Branch(change) = "late"
    /\ lock' = p /\ cur' = LateEntry(change) /\ ret' = {} /\ lateAt' = ""
    /\ receivedSeqs' = receivedSeqs \cup {change.Sequence}
    /\ accepted' = (change.Sequence :> EntryKind(change)) @@ accepted
    /\ applied' = [applied EXCEPT ![change.Sequence] = @ + 1]
    /\ pc' = [pc EXCEPT ![p] = "call"]
    /\ kind' = [kind EXCEPT ![p] = "doc"]
    /\ UNCHANGED <<logsDisabled, stopped, terminated, nextSequence, initialSequence,
                   pendingLogs, channelCaches>>
    /\ UNCHANGED <<skipVars, todo, bgVars, now, reader, fn>>
    /\ UNCHANGED <<cacheCalls, abandoned, dropped, notified, evStat>>

\* DocChangedSynchronous, with the late case of processEntry taken call by call
DocChangedLate(p) ==
    \E seq \in DocSeqs : \E ch \in DocChannels(seq) :
        /\ seq > initialSequence
        /\ LET change == [DocEntry(seq, ch) EXCEPT !.TimeReceived = now]
           IN  IF Branch(change) = "late"
               THEN LateCall(p, change)
               ELSE BeginEvent(p, "doc", <<DocEntry(seq, ch)>>)

\* _addToCache, one turn of its loop up to channelCache.addToCache; the star
\* channel comes after the entry's channels
AddToChannel ==
    /\ lock \in Tasks /\ lateAt = ""
    /\ \E name \in FanOutRemaining :
         /\ name = UserStarChannel => FanOutRemaining = {UserStarChannel}
         /\ channelCaches' = ChannelAddToCache(channelCaches, name, cur, IsRemoval(cur, name))
         /\ cacheCalls' = [cacheCalls EXCEPT ![name] =
                              Append(@, [Sequence |-> cur.Sequence, Skipped |-> cur.Skipped])]
         /\ ret' = ret \cup {name}
         /\ lateAt' = IF cur.Skipped THEN name ELSE ""
    /\ UNCHANGED <<lock, cur>>
    /\ UNCHANGED <<logsDisabled, stopped, terminated, nextSequence, initialSequence,
                   receivedSeqs, pendingLogs>>
    /\ UNCHANGED <<skipVars, taskVars, bgVars, now, reader, fn>>
    /\ UNCHANGED <<applied, abandoned, accepted, dropped, notified, evStat>>

\* _addToCache, the same turn: channelCache.AddLateSequence for a skipped entry
AddLateSequence ==
    /\ lock \in Tasks /\ lateAt # ""
    /\ channelCaches' = ChannelAddLateSequence(channelCaches, lateAt, cur)
    /\ lateAt' = ""
    /\ UNCHANGED <<lock, cur, ret>>
    /\ UNCHANGED <<logsDisabled, stopped, terminated, nextSequence, initialSequence,
                   receivedSeqs, pendingLogs>>
    /\ UNCHANGED <<skipVars, taskVars, bgVars, histVars, now, reader, fn>>

\* ------------------------------------------------------- pending-timeout task
\* func (c *changeCache) CleanUp, called by the first background task of Init
\* when its timer fires: _addPendingLogs, then, when no channel changed,
\* pruneCache on every channel and the deferred Unlock.  When channels changed
\* the step ends in the call of notifyChange(changedChannels), which CleanUp
\* makes with c.lock held.
CleanUp ==
    /\ pcU = "select" /\ lock = "none"
    /\ LET d == addPendingLogs(Coord)
       IN  /\ nextSequence' = d.next
           /\ pendingLogs' = d.pending
           /\ skippedSeqs' = d.skipped
           /\ applied' = d.applied
           /\ cacheCalls' = d.calls
           /\ IF d.changed = {}
              THEN channelCaches' = pruneCache(d.caches) /\ UNCHANGED lockVars
              ELSE /\ channelCaches' = d.caches
                   /\ lock' = "cleanup" /\ ret' = d.changed
                   /\ UNCHANGED <<cur, lateAt>>
    /\ UNCHANGED <<logsDisabled, stopped, terminated, initialSequence, receivedSeqs>>
    /\ UNCHANGED <<abandoned_seqs, taskVars, bgVars, now, reader, fn>>
    /\ UNCHANGED <<abandoned, accepted, dropped, notified, evStat>>

\* CleanUp after the listener has returned: pruneCache on every channel and
\* the deferred Unlock
CleanUpNotified ==
    /\ lock = "cleanup"
    /\ channelCaches' = pruneCache(channelCaches)
    /\ lock' = "none" /\ ret' = {}
    /\ UNCHANGED <<cur, lateAt>>
    /\ UNCHANGED <<logsDisabled, stopped, terminated, nextSequence, initialSequence,
                   receivedSeqs, pendingLogs>>
    /\ UNCHANGED <<skipVars, taskVars, bgVars, histVars, now, reader, fn>>

\* the background task reads the closed terminator and returns
CleanUpExit ==
    /\ pcU = "select" /\ terminated /\ lock # "cleanup"
    /\ pcU' = "exited"
    /\ UNCHANGED <<pcS, pendingRemovals, failedSeqs, snapshot>>
    /\ UNCHANGED <<coordVars, lockVars, skipVars, taskVars, histVars, now, reader, fn>>

\* ------------------------------------------------------ skipped-sequence task
\* the entry the channel view returns for a sequence (the star channel only)
ViewEntry(seq) == [Sequence |-> seq, DocID |-> "doc", Channels |-> (UserStarChannel :> 0),
                   Skipped |-> FALSE, TimeReceived |-> 0]

RECURSIVE ViewEntries(_)
ViewEntries(sequences) ==
    IF sequences = <<>> THEN <<>>
    ELSE <<ViewEntry(Head(sequences))>> \o ViewEntries(Tail(sequences))

\* the batches CleanSkippedSequenceQueue cuts oldSkippedSequences into
NumBatches(old) == (Len(old) + SkippedSeqCleanViewBatch - 1) \div SkippedSeqCleanViewBatch
BatchOf(i) == (i + SkippedSeqCleanViewBatch - 1) \div SkippedSeqCleanViewBatch

\* a faulty sweep: a batch whose query failed is treated as not found
Queried_failedToo(old, i, failed) == SubSeq(old, i, Len(old))

\* the sequences of the batches whose query succeeded
RECURSIVE Queried(_, _, _)
Queried(old, i, failed) ==
    IF i > Len(old) THEN <<>>
    ELSE (IF BatchOf(i) \in failed THEN <<>> ELSE <<old[i]>>) \o Queried(old, i + 1, failed)

\* func (c *changeCache) CleanSkippedSequenceQueue, up to its processEntry
\* loop: the expired sequences are queried batch by batch.  A query fails (its
\* batch is left alone) or returns the entries of the sequences the store
\* holds a document for; the others of the batch go to pendingRemovals.
CleanSkippedSequenceQueue ==
    LET oldSkippedSequences == getOlderThan(skippedSeqs, CacheSkippedSeqMaxWait)
    IN  /\ pcS = "select"
        /\ oldSkippedSequences # <<>>
        /\ \E failed \in SUBSET (1..NumBatches(oldSkippedSequences)),
              found \in SUBSET (Range(oldSkippedSequences) \cap DocSeqs) :
             LET queried == Queried(oldSkippedSequences, 1, failed)
             IN  /\ todo' = [todo EXCEPT !["skipclean"] =
                                ViewEntries(SelectSeq(queried, LAMBDA x : x \in found))]
                 /\ pendingRemovals' = SelectSeq(queried, LAMBDA x : x \notin found)
                 /\ failedSeqs' = {oldSkippedSequences[i] :
                                      i \in {j \in 1..Len(oldSkippedSequences) :
                                                BatchOf(j) \in failed}}
        /\ snapshot' = oldSkippedSequences
        /\ pcS' = "process"
        /\ UNCHANGED <<pc, kind, pcU>>
        /\ UNCHANGED <<coordVars, lockVars, skipVars, histVars, now, reader, fn>>

\* CleanSkippedSequenceQueue, a found entry whose GetDocument fails: skipped
GetDocumentFails ==
    /\ pcS = "process" /\ pc["skipclean"] = "idle" /\ todo["skipclean"] # <<>>
    /\ todo' = [todo EXCEPT !["skipclean"] = Tail(@)]
    /\ UNCHANGED <<pc, kind>>
    /\ UNCHANGED <<coordVars, lockVars, skipVars, bgVars, histVars, now, reader, fn>>

\* CleanSkippedSequenceQueue, a found entry: flagged skipped, given the
\* document's channels, and run through processEntry
ProcessFound ==
    /\ pcS = "process" /\ pc["skipclean"] = "idle" /\ todo["skipclean"] # <<>>
    /\ \E ch \in DocChannels(Head(todo["skipclean"]).Sequence) :
         LET entry == [Head(todo["skipclean"]) EXCEPT !.Skipped = TRUE,
                                                      !.Channels = (ch :> 0)]
         IN  /\ processEntry("skipclean", entry)
             /\ pc' = [pc EXCEPT !["skipclean"] = IF Returns(entry) THEN "idle" ELSE "call"]
    /\ todo' = [todo EXCEPT !["skipclean"] = Tail(@)]
    /\ UNCHANGED <<kind, notified, evStat, bgVars>>

\* CleanSkippedSequenceQueue after its last found entry: RemoveSkippedSequences
\* purges the sequences not found and the number removed is added to
\* abandoned_seqs
PurgeNotFound ==
    /\ pcS = "process" /\ pc["skipclean"] = "idle" /\ todo["skipclean"] = <<>>
    /\ LET r == RemoveSkippedSequences(skippedSeqs, pendingRemovals)
       IN  /\ skippedSeqs' = r.list
           /\ abandoned_seqs' = abandoned_seqs + r.removedCount
           /\ abandoned' = abandoned \cup (SkippedSet(skippedSeqs) \ SkippedSet(r.list))
    /\ pendingRemovals' = <<>> /\ failedSeqs' = {} /\ snapshot' = <<>>
    /\ pcS' = "select"
    /\ UNCHANGED <<pcU, taskVars>>
    /\ UNCHANGED <<coordVars, lockVars, now, reader, fn>>
    /\ UNCHANGED <<applied, cacheCalls, accepted, dropped, notified, evStat>>

\* the background task reads the closed terminator and returns
CleanSkippedExit ==
    /\ pcS = "select" /\ terminated
    /\ pcS' = "exited"
    /\ UNCHANGED <<pcU, pendingRemovals, failedSeqs, snapshot>>
    /\ UNCHANGED <<coordVars, lockVars, skipVars, taskVars, histVars, now, reader, fn>>

\* ------------------------------------------------------------------ control
\* what context.LastSequence() can return: the backing store has assigned
\* every sequence the cache has seen
StoreLastSequences ==
    {v \in 0..MaxSeq : v >= initialSequence /\ \A s \in receivedSeqs : v >= s}

\* func (c *changeCache) Clear
Clear ==
    /\ lock = "none"
    /\ \E lastSequence \in StoreLastSequences : initialSequence' = lastSequence
    /\ channelCaches' = <<>>
    /\ pendingLogs' = {}
    /\ UNCHANGED <<logsDisabled, stopped, terminated, nextSequence, receivedSeqs>>
    /\ UNCHANGED <<lockVars, skipVars, taskVars, bgVars, histVars, now, reader, fn>>

\* func (c *changeCache) Stop, its first statement: close(c.terminator)
StopClose ==
    /\ ~terminated
    /\ terminated' = TRUE
    /\ UNCHANGED <<logsDisabled, stopped, nextSequence, initialSequence, receivedSeqs,
                   pendingLogs, channelCaches>>
    /\ UNCHANGED <<lockVars, skipVars, taskVars, bgVars, histVars, now, reader, fn>>

\* func (c *changeCache) Stop, under the lock
Stop ==
    /\ terminated /\ ~stopped /\ lock = "none"
    /\ stopped' = TRUE
    /\ logsDisabled' = TRUE
    /\ UNCHANGED <<terminated, nextSequence, initialSequence, receivedSeqs, pendingLogs,
                   channelCaches>>
    /\ UNCHANGED <<lockVars, skipVars, taskVars, bgVars, histVars, now, reader, fn>>

\* func (c *changeCache) EnableChannelIndexing
EnableChannelIndexing ==
    /\ lock = "none"
    /\ \E enable \in BOOLEAN :
         /\ logsDisabled = enable
         /\ logsDisabled' = ~enable
    /\ UNCHANGED <<stopped, terminated, nextSequence, initialSequence, receivedSeqs,
                   pendingLogs, channelCaches>>
    /\ UNCHANGED <<lockVars, skipVars, taskVars, bgVars, histVars, now, reader, fn>>

\* func (c *changeCache) GetChanges, up to the return of IsStopped (a read
\* lock): a stopped cache makes it return HTTP 503 and no entries
GetChanges(channelName) ==
    /\ lock = "none" /\ reader.at # "checked"
    /\ reader' = [op |-> "GetChanges", channel |-> channelName, afterStop |-> stopped,
                  at |-> IF stopped THEN "idle" ELSE "checked",
                  error |-> IF stopped THEN 503 ELSE 0, entries |-> <<>>]
    /\ UNCHANGED <<coordVars, lockVars, skipVars, taskVars, bgVars, histVars, now, fn>>

\* GetChanges, after IsStopped returned false: getChannelCache (under the
\* lock, creating the channel's cache if need be) and the cache's GetChanges
GetChangesRead ==
    /\ lock = "none" /\ reader.at = "checked"
    /\ channelCaches' = GetChannelCache(channelCaches, reader.channel)
    /\ reader' = [reader EXCEPT !.at = "idle",
                                !.entries = CachedChanges(channelCaches', reader.channel)]
    /\ UNCHANGED <<logsDisabled, stopped, terminated, nextSequence, initialSequence,
                   receivedSeqs, pendingLogs>>
    /\ UNCHANGED <<lockVars, skipVars, taskVars, bgVars, histVars, now, fn>>

\* func (c *changeCache) GetCachedChanges: getChannelCache and the cache's
\* getCachedChanges; c.stopped is not read
GetCachedChanges(channelName) ==
    /\ lock = "none" /\ reader.at # "checked"
    /\ channelCaches' = GetChannelCache(channelCaches, channelName)
    /\ reader' = [op |-> "GetCachedChanges", channel |-> channelName,
                  afterStop |-> stopped, at |-> "idle", error |-> 0,
                  entries |-> CachedChanges(channelCaches', channelName)]
    /\ UNCHANGED <<logsDisabled, stopped, terminated, nextSequence, initialSequence,
                   receivedSeqs, pendingLogs>>
    /\ UNCHANGED <<lockVars, skipVars, taskVars, bgVars, histVars, now, fn>>

Feed ==
    \/ \E p \in Producers : DocChanged(p)
    \/ \E p \in MarkerProducers :
        \/ processUnusedSequence(p)
        \/ processUnusedSequenceRange(p)
        \/ processPrincipalDoc(p)
        \/ Submit(p)
        \/ FinishRange(p)

Next ==
    \/ Start
    \/ Tick
    \/ Feed
    \/ RemoveSkipped
    \/ CleanUp \/ CleanUpNotified \/ CleanUpExit
    \/ CleanSkippedSequenceQueue \/ GetDocumentFails \/ ProcessFound
    \/ PurgeNotFound \/ CleanSkippedExit
    \/ Clear \/ StopClose \/ Stop \/ EnableChannelIndexing
    \/ \E channelName \in AllChannels :
         GetChanges(channelName) \/ GetCachedChanges(channelName)
    \/ GetChangesRead

\* the feed and the housekeeping tasks alone
NextFeed ==
    \/ Start
    \/ Tick
    \/ Feed
    \/ RemoveSkipped
    \/ CleanUp \/ CleanUpNotified
    \/ CleanSkippedSequenceQueue \/ GetDocumentFails \/ ProcessFound
    \/ PurgeNotFound

SpecFeed == Init /\ [][NextFeed]_vars

\* the life cycle: documents from one feed task, the housekeeping tasks, and
\* Clear, Stop and EnableChannelIndexing
NextControl ==
    \/ Start
    \/ Tick
    \/ DocChanged("p1")
    \/ RemoveSkipped
    \/ CleanUp \/ CleanUpNotified \/ CleanUpExit
    \/ CleanSkippedSequenceQueue \/ GetDocumentFails \/ ProcessFound
    \/ PurgeNotFound \/ CleanSkippedExit
    \/ Clear \/ StopClose \/ Stop

SpecControl == Init /\ [][NextControl]_vars

\* documents from one feed task and the pending-timeout task, with the late
\* case of processEntry taken one channel cache call at a time
NextLate ==
    \/ Start
    \/ Tick
    \/ DocChangedLate("p1")
    \/ AddToChannel \/ AddLateSequence
    \/ RemoveSkipped
    \/ CleanUp \/ CleanUpNotified

SpecLate == Init /\ [][NextLate]_vars

\* the start of the cache, with a backing store that may fail to tell its last
\* sequence: documents from one feed task, the pending-timeout task, a reader
NextStart ==
    \/ Start \/ StartFails
    \/ Tick
    \/ DocChanged("p1")
    \/ RemoveSkipped
    \/ CleanUp \/ CleanUpNotified
    \/ EnableChannelIndexing
    \/ \E channelName \in AllChannels : GetCachedChanges(channelName)

SpecStart == Init /\ [][NextStart]_vars

\* a changes feed reading a cache that documents of one feed task are added
\* to and that is stopped
NextReader ==
    \/ Start
    \/ Tick
    \/ DocChanged("p1")
    \/ RemoveSkipped
    \/ CleanUp \/ CleanUpNotified
    \/ StopClose \/ Stop
    \/ \E channelName \in AllChannels :
         GetChanges(channelName) \/ GetCachedChanges(channelName)
    \/ GetChangesRead

SpecReader == Init /\ [][NextReader]_vars

\* a document arrives while the clock can still run past its wait
DocChangedInTime(p) ==
    /\ now + CachePendingSeqMaxWait <= MaxTime
    /\ DocChanged(p)

\* a running cache: documents from one feed task and the pending-timeout task
NextLive ==
    \/ Start
    \/ Tick
    \/ DocChangedInTime("p1")
    \/ RemoveSkipped
    \/ CleanUp \/ CleanUpNotified

\* The clock runs, a task that holds c.lock goes on to release it, and the
\* pending-timeout task, whose timer fires every CachePendingSeqMaxWait / 2,
\* gets the lock and runs CleanUp.
SpecLive ==
    /\ Init /\ [][NextLive]_vars
    /\ WF_vars(Tick)
    /\ WF_vars(RemoveSkipped)
    /\ WF_vars(CleanUp) /\ WF_vars(CleanUpNotified)
Spec == Init /\ [][Next]_vars

\* ------------------------------------- documents with recent sequences
MaxRecent == 2

\* the ascending list of the sequences of S
RECURSIVE Ascending(_)
Ascending(S) ==
    IF S = {} THEN <<>>
    ELSE LET first == SetMin(S) IN <<first>> \o Ascending(S \ {first})

\* syncData.RecentSequences of a document of sequence seq: some of the last
\* sequences of the document, its current one possibly among them
RecentSequences(seq) == {Ascending(R) : R \in SUBSET {s \in Seqs : seq - MaxRecent <= s /\ s <= seq}}

\* syncData.UnusedSequences: none, or the sequence before the document's
UnusedSequences(seq) == {<<>>} \cup {<<u>> : u \in {seq - 1} \cap Seqs}

\* a faulty filter of the recent sequences: the current sequence passes
IsDeduplicated_upToCurrent(seq, next, currentSequence) ==
    seq >= next /\ seq <= currentSequence

\* the test DocChangedSynchronous makes on a recent sequence
IsDeduplicated(seq, next, currentSequence) ==
    seq >= next /\ seq < currentSequence

\* func (c *changeCache) DocChangedSynchronous, a document (in channel A, no
\* channel removed at a recent sequence) whose sync metadata lists unused and
\* recent sequences, up to the loops: the entries the loops go through are
\* those of the unused sequences, those of the recent ones, and the
\* document's own; currentSequence is the first unused sequence if there is one
DocChangedRecent(p) ==
    \E seq \in DocSeqs : \E unused \in UnusedSequences(seq) :
    \E recent \in RecentSequences(seq) :
        /\ lock = "none" /\ pc[p] = "idle"
        /\ seq > initialSequence
        /\ pc' = [pc EXCEPT ![p] = "wait"]
        /\ kind' = [kind EXCEPT ![p] = "recent"]
        /\ todo' = [todo EXCEPT ![p] =
                      [i \in 1..Len(unused) |-> Placeholder(unused[i])]
                          \o [i \in 1..Len(recent) |-> Placeholder(recent[i])]
                          \o <<DocEntry(seq, "A")>>]
        /\ notified' = [notified EXCEPT ![p] = {}]
        /\ evStat' = [evStat EXCEPT ![p] =
                        [ok |-> TRUE, advanced |-> 0, cachesChanged |-> FALSE,
                         sequence |-> seq, unused |-> Len(unused),
                         currentSequence |-> IF Len(unused) > 0 THEN unused[1] ELSE seq,
                         listsOwn |-> seq \in Range(recent),
                         placeholders |-> {}, main |-> ""]]
        /\ UNCHANGED <<coordVars, lockVars, skipVars, bgVars, now, reader, fn>>
        /\ UNCHANGED <<applied, cacheCalls, abandoned, accepted, dropped>>

\* DocChangedSynchronous, the next round of its loops: processEntry for an
\* unused sequence, for a recent sequence that passes the test against
\* getNextSequence() and currentSequence, or, last, for the document itself
SubmitRecent(p) ==
    LET st == evStat[p]
        change == [Head(todo[p]) EXCEPT !.TimeReceived = now]
        isMain == Len(todo[p]) = 1
        isUnused == st.unused > 0
        isRecent == ~isMain /\ ~isUnused
    IN  /\ lock = "none" /\ pc[p] = "wait" /\ kind[p] = "recent" /\ todo[p] # <<>>
        /\ todo' = [todo EXCEPT ![p] = Tail(@)]
        /\ IF isRecent /\ ~IsDeduplicated(change.Sequence, nextSequence, st.currentSequence)
           THEN /\ UNCHANGED <<coordVars, lockVars, skipVars, bgVars, histVars, now,
                               reader, fn>>
                /\ UNCHANGED <<pc, kind>>
           ELSE /\ processEntry(p, change)
                /\ IF Returns(change)
                   THEN AfterReturn(p, "recent", Result(change).changed, notified[p])
                   ELSE /\ pc' = [pc EXCEPT ![p] = "call"]
                        /\ UNCHANGED <<kind, notified>>
                /\ evStat' = [evStat EXCEPT ![p] =
                      [st EXCEPT !.unused = IF isUnused THEN @ - 1 ELSE @,
                                 !.placeholders =
                                     IF isRecent
                                     THEN @ \cup {[seq |-> change.Sequence,
                                                   next |-> nextSequence]}
                                     ELSE @,
                                 !.main = IF isMain THEN Branch(change) ELSE @]]
                /\ UNCHANGED bgVars

NextRecent ==
    \/ Start
    \/ DocChangedRecent("p1") \/ SubmitRecent("p1") \/ FinishRange("p1")
    \/ DocChanged("p2")
    \/ RemoveSkipped
SpecRecent == Init /\ [][NextRecent]_vars

\* ============================================================ SequenceID
\* A string is the sequence of its characters.
MaxComponent == 3
MaxStrLen == 5

DigitChars == <<"0", "1", "2", "3", "4", "5", "6", "7", "8", "9">>
IsDigit(ch) == \E d \in 1..10 : DigitChars[d] = ch
DigitValue(ch) == (CHOOSE d \in 1..10 : DigitChars[d] = ch) - 1

\* a faulty FormatUint: the last digit only
FormatUint_lastDigit(n) == <<DigitChars[(n % 10) + 1]>>

\* strconv.FormatUint(n, 10) and fmt's %d of a uint64
RECURSIVE FormatUint(_)
FormatUint(n) ==
    IF n < 10 THEN <<DigitChars[n + 1]>>
    ELSE FormatUint(n \div 10) \o <<DigitChars[(n % 10) + 1]>>

\* the SequenceID of integer type with all fields zero
ZeroSequenceID == [Seq |-> 0, TriggeredBy |-> 0, LowSeq |-> 0]

\* a faulty intSeqToString: LowSeq is kept when it equals Seq
intSeqToString_lowSeqEqual(s) ==
    IF s.LowSeq > 0 /\ s.LowSeq <= s.Seq
    THEN IF s.TriggeredBy > 0
         THEN FormatUint(s.LowSeq) \o <<":">> \o FormatUint(s.TriggeredBy)
                  \o <<":">> \o FormatUint(s.Seq)
         ELSE FormatUint(s.LowSeq) \o <<":", ":">> \o FormatUint(s.Seq)
    ELSE IF s.TriggeredBy > 0
         THEN FormatUint(s.TriggeredBy) \o <<":">> \o FormatUint(s.Seq)
         ELSE FormatUint(s.Seq)

\* func (s SequenceID) intSeqToString
intSeqToString(s) ==
    IF s.LowSeq > 0 /\ s.LowSeq < s.Seq
    THEN IF s.TriggeredBy > 0
         THEN FormatUint(s.LowSeq) \o <<":">> \o FormatUint(s.TriggeredBy)
                  \o <<":">> \o FormatUint(s.Seq)
         ELSE FormatUint(s.LowSeq) \o <<":", ":">> \o FormatUint(s.Seq)
    ELSE IF s.TriggeredBy > 0
         THEN FormatUint(s.TriggeredBy) \o <<":">> \o FormatUint(s.Seq)
         ELSE FormatUint(s.Seq)

\* strings.Split(str, ":")
RECURSIVE Split(_)
Split(str) ==
    IF \A i \in 1..Len(str) : str[i] # ":" THEN <<str>>
    ELSE LET i == CHOOSE j \in 1..Len(str) :
                      str[j] = ":" /\ \A k \in 1..(j - 1) : str[k] # ":"
         IN  <<SubSeq(str, 1, i - 1)>> \o Split(SubSeq(str, i + 1, Len(str)))

\* the number a string of digits denotes
RECURSIVE DecimalValue(_)
DecimalValue(digits) ==
    IF digits = <<>> THEN 0
    ELSE 10 * DecimalValue(SubSeq(digits, 1, Len(digits) - 1))
             + DigitValue(digits[Len(digits)])

\* strconv.ParseUint(component, 10, 64): a *NumError and the value 0 for the
\* empty string and for any character that is not a digit (a sign included);
\* a string of at most MaxStrLen digits is below 2^64, so no range error
ParseUint(component) ==
    IF component = <<>> \/ \E i \in 1..Len(component) : ~IsDigit(component[i])
    THEN [value |-> 0, err |-> "NumError"]
    ELSE [value |-> DecimalValue(component), err |-> ""]

\* func ParseIntSequenceComponent
ParseIntSequenceComponent(component, allowEmpty) ==
    IF allowEmpty /\ component = <<>>
    THEN [value |-> 0, err |-> ""]
    ELSE ParseUint(component)

\* func parseIntegerSequenceID: the SequenceID and the error it returns ("" for
\* nil, "HTTP400" for base.HTTPErrorf(400, ...), "NumError" for the error of
\* strconv.ParseUint returned as it is). The named result s holds the
\* components assigned before a return.
parseIntegerSequenceID(str) ==
    IF str = <<>> THEN [s |-> ZeroSequenceID, err |-> ""]
    ELSE
    LET components == Split(str) IN
    IF Len(components) = 1 THEN
        LET seq == ParseIntSequenceComponent(components[1], FALSE)
        IN  [s |-> [ZeroSequenceID EXCEPT !.Seq = seq.value],
             err |-> IF seq.err # "" THEN "HTTP400" ELSE ""]
    ELSE IF Len(components) = 2 THEN
        LET triggeredBy == ParseIntSequenceComponent(components[1], FALSE)
            seq == ParseIntSequenceComponent(components[2], FALSE)
        IN  IF triggeredBy.err # ""
            THEN [s |-> ZeroSequenceID, err |-> triggeredBy.err]
            ELSE IF seq.err # ""
            THEN [s |-> [ZeroSequenceID EXCEPT !.TriggeredBy = triggeredBy.value],
                  err |-> seq.err]
            ELSE [s |-> [ZeroSequenceID EXCEPT !.TriggeredBy = triggeredBy.value,
                                               !.Seq = seq.value],
                  err |-> ""]
    ELSE IF Len(components) = 3 THEN
        LET lowSeq == ParseIntSequenceComponent(components[1], FALSE)
            triggeredBy == ParseIntSequenceComponent(components[2], TRUE)
            seq == ParseIntSequenceComponent(components[3], FALSE)
        IN  IF lowSeq.err # ""
            THEN [s |-> ZeroSequenceID, err |-> lowSeq.err]
            ELSE IF triggeredBy.err # ""
            THEN [s |-> [ZeroSequenceID EXCEPT !.LowSeq = lowSeq.value],
                  err |-> triggeredBy.err]
            ELSE IF seq.err # ""
            THEN [s |-> [ZeroSequenceID EXCEPT !.LowSeq = lowSeq.value,
                                               !.TriggeredBy = triggeredBy.value],
                  err |-> seq.err]
            ELSE [s |-> [Seq |-> seq.value, TriggeredBy |-> triggeredBy.value,
                         LowSeq |-> lowSeq.value],
                  err |-> ""]
    ELSE [s |-> ZeroSequenceID, err |-> "HTTP400"]

\* func (s SequenceID) SafeSequence
SafeSequence(s) == IF s.LowSeq > 0 THEN s.LowSeq ELSE s.Seq

\* a faulty Before: a triggered s is before an untriggered s2 only when its
\* TriggeredBy is strictly lower
Before_strict(s, s2) ==
    IF s.TriggeredBy = s2.TriggeredBy THEN SafeSequence(s) < SafeSequence(s2)
    ELSE IF s.TriggeredBy = 0 THEN SafeSequence(s) < s2.TriggeredBy
    ELSE IF s2.TriggeredBy = 0 THEN s.TriggeredBy < SafeSequence(s2)
    ELSE s.TriggeredBy < s2.TriggeredBy

\* a faulty Before: an untriggered s is compared with s2's own sequence
Before_bySeq(s, s2) ==
    IF s.TriggeredBy = s2.TriggeredBy THEN SafeSequence(s) < SafeSequence(s2)
    ELSE IF s.TriggeredBy = 0 THEN SafeSequence(s) < s2.Seq
    ELSE IF s2.TriggeredBy = 0 THEN s.TriggeredBy <= SafeSequence(s2)
    ELSE s.TriggeredBy < s2.TriggeredBy

\* a faulty Before: equal safe sequences with the same trigger count as before
Before_orEqual(s, s2) ==
    IF s.TriggeredBy = s2.TriggeredBy THEN SafeSequence(s) <= SafeSequence(s2)
    ELSE IF s.TriggeredBy = 0 THEN SafeSequence(s) < s2.TriggeredBy
    ELSE IF s2.TriggeredBy = 0 THEN s.TriggeredBy <= SafeSequence(s2)
    ELSE s.TriggeredBy < s2.TriggeredBy

\* func (s SequenceID) Before
Before(s, s2) ==
    IF s.TriggeredBy = s2.TriggeredBy THEN SafeSequence(s) < SafeSequence(s2)
    ELSE IF s.TriggeredBy = 0 THEN SafeSequence(s) < s2.TriggeredBy
    ELSE IF s2.TriggeredBy = 0 THEN s.TriggeredBy <= SafeSequence(s2)
    ELSE s.TriggeredBy < s2.TriggeredBy

\* -------------------------------------------------- SkippedSequenceList
\* The struct: skippedList, head first, and skippedMap from sequence to the
\* element of the list that holds it.
NewSkippedSequenceList == [skippedList |-> <<>>, skippedMap |-> <<>>]

\* func (l *SkippedSequenceList) Contains
Contains(l, x) == x \in DOMAIN l.skippedMap

\* a faulty Push of the struct: every push is taken as valid
SkippedSequenceListPush_unchecked(l, x) ==
    [l |-> [skippedList |-> Append(l.skippedList, x),
            skippedMap |-> [k \in DOMAIN l.skippedMap \cup {x.seq} |->
                               IF k = x.seq THEN x ELSE l.skippedMap[k]]],
     err |-> ""]

\* func (l *SkippedSequenceList) Push on the struct: the struct afterwards and
\* the error returned ("" for nil)
SkippedSequenceListPush(l, x) ==
    LET validPush == \/ l.skippedList = <<>>
                     \/ l.skippedList[Len(l.skippedList)].seq < x.seq
    IN  IF validPush
        THEN [l |-> [skippedList |-> Push(l.skippedList, x),
                     skippedMap |-> [k \in DOMAIN l.skippedMap \cup {x.seq} |->
                                        IF k = x.seq THEN x ELSE l.skippedMap[k]]],
              err |-> ""]
        ELSE [l |-> l, err |-> "Can't push sequence lower than existing maximum"]

\* the list the pushes of the sequences of S in ascending order, at time 0, build
RECURSIVE PushedList(_)
PushedList(S) ==
    IF S = {} THEN NewSkippedSequenceList
    ELSE LET last == CHOOSE x \in S : \A y \in S : y <= x
         IN  SkippedSequenceListPush(PushedList(S \ {last}),
                                     [seq |-> last, timeAdded |-> 0]).l

\* ------------------------------------------------- functions on their own
\* The arguments the functions are called with.
Components == 0..MaxComponent
ExampleX == [Seq |-> 10, TriggeredBy |-> 0, LowSeq |-> 0]
ExampleY == [Seq |-> 20, TriggeredBy |-> 8, LowSeq |-> 0]
ExampleLow == [Seq |-> 20, TriggeredBy |-> 8, LowSeq |-> 10]
SequenceIDs ==
    [Seq : Components, TriggeredBy : Components, LowSeq : Components]
        \cup {ExampleX, ExampleY, ExampleLow}
Alphabet == {"0", "1", "9", ":", "x", "-"}
Strings == UNION {[1..n -> Alphabet] : n \in 0..MaxStrLen}
NoResult == [s |-> ZeroSequenceID, err |-> ""]

Calls ==
    {[op |-> "Before", at |-> "args", s |-> a, s2 |-> b, before |-> FALSE,
      str |-> <<>>, str2 |-> <<>>, parsed |-> NoResult, parsed2 |-> NoResult,
      beforeParsed |-> FALSE] : a \in SequenceIDs, b \in SequenceIDs}
    \cup {[op |-> "parseIntegerSequenceID", at |-> "args", str |-> str,
           parsed |-> NoResult] : str \in Strings}
    \cup {[op |-> "Push", at |-> "args", l |-> PushedList(S),
           x |-> [seq |-> seq, timeAdded |-> 1], pushed |-> NewSkippedSequenceList,
           err |-> ""] : S \in SUBSET Seqs, seq \in Seqs}

InitCalls == CacheInit /\ fn \in Calls

FnReturns(value) ==
    /\ fn' = value
    /\ UNCHANGED <<coordVars, lockVars, skipVars, taskVars, bgVars, histVars, now, reader>>

\* s.Before(s2)
CallBefore ==
    /\ fn.op = "Before" /\ fn.at = "args"
    /\ FnReturns([fn EXCEPT !.at = "compared", !.before = Before(fn.s, fn.s2)])

\* s.String() and s2.String(), of integer type
CallString ==
    /\ fn.op = "Before" /\ fn.at = "compared"
    /\ FnReturns([fn EXCEPT !.at = "formatted", !.str = intSeqToString(fn.s),
                            !.str2 = intSeqToString(fn.s2)])

\* ParseSequenceID of the two strings, without a sequence hasher
CallParseSequenceID ==
    /\ fn.op = "Before" /\ fn.at = "formatted"
    /\ FnReturns([fn EXCEPT !.at = "parsed",
                            !.parsed = parseIntegerSequenceID(fn.str),
                            !.parsed2 = parseIntegerSequenceID(fn.str2)])

\* Before on the two parsed SequenceIDs
CallBeforeParsed ==
    /\ fn.op = "Before" /\ fn.at = "parsed"
    /\ FnReturns([fn EXCEPT !.at = "done",
                            !.beforeParsed = Before(fn.parsed.s, fn.parsed2.s)])

\* parseIntegerSequenceID(str) of any string
CallParseInput ==
    /\ fn.op = "parseIntegerSequenceID" /\ fn.at = "args"
    /\ FnReturns([fn EXCEPT !.at = "done", !.parsed = parseIntegerSequenceID(fn.str)])

\* l.Push(x)
CallPush ==
    /\ fn.op = "Push" /\ fn.at = "args"
    /\ LET r == SkippedSequenceListPush(fn.l, fn.x)
       IN  FnReturns([fn EXCEPT !.at = "done", !.pushed = r.l, !.err = r.err])

NextCalls ==
    \/ CallBefore \/ CallString \/ CallParseSequenceID \/ CallBeforeParsed
    \/ CallParseInput
    \/ CallPush
SpecCalls == InitCalls /\ [][NextCalls]_vars


\* ============================================================== properties
SetMax(S) == CHOOSE x \in S : \A y \in S : y <= x
Delivered(s) == applied[s] >= 1
InSkipped(s) == s \in SkippedSet(skippedSeqs)
Abandoned(s) == s \in abandoned
Count(b) == IF b THEN 1 ELSE 0

\* no processEntry call is in flight and no run of the skipped-sequence task
Quiescent == lock = "none" /\ pcS = "select" /\ \A t \in Tasks : pc[t] = "idle"

\* the sequences received are exactly initialSequence+1 .. N
Covered ==
    /\ receivedSeqs # {}
    /\ receivedSeqs = (initialSequence + 1)..SetMax(receivedSeqs)

\* C1, as the specification states it: at quiescence after submissions with
\* unique sequences covering initialSequence+1..N, LastSequence() = N and each
\* sequence of the range is exactly one of delivered, in the skipped list,
\* abandoned.
C1_ExactlyOneOfThree ==
    (Quiescent /\ Covered /\ dropped = {}) =>
        /\ LastSequence = SetMax(receivedSeqs)
        /\ \A s \in receivedSeqs :
             Count(Delivered(s)) + Count(InSkipped(s)) + Count(Abandoned(s)) = 1

\* C1, amended: at quiescence after submissions covering
\* initialSequence+1..N, LastSequence() = N, nothing is pending, and every
\* sequence of the range was delivered exactly once and is not in the skipped
\* list; a sequence abandoned before it arrived is delivered all the same.
C1_AllDeliveredOnce ==
    (Quiescent /\ Covered) =>
        /\ LastSequence = SetMax(receivedSeqs)
        /\ pendingLogs = {}
        /\ \A s \in receivedSeqs : applied[s] = 1 /\ ~InSkipped(s)

\* a quiescent state after 1..3 and more were submitted out of order, where a
\* sequence was abandoned and then arrived
C1_Witness ==
    /\ Quiescent /\ Covered /\ dropped = {}
    /\ Cardinality(receivedSeqs) >= 3
    /\ \E s \in receivedSeqs : Abandoned(s) /\ Delivered(s)

\* C2, as the specification states it: in every state, each sequence between
\* initialSequence and nextSequence is delivered or in the skipped list, and
\* not both.
C2_DeliveredXorSkipped ==
    \A s \in Seqs :
        (initialSequence < s /\ s < nextSequence) => (Delivered(s) # InSkipped(s))

\* C2, amended: while the coordinator lock is free, each sequence between
\* initialSequence and nextSequence is delivered, in the skipped list or
\* abandoned, and never both delivered and in the skipped list.
C2_DeliveredSkippedOrAbandoned ==
    lock = "none" =>
        \A s \in Seqs :
            (initialSequence < s /\ s < nextSequence) =>
                /\ Delivered(s) \/ InSkipped(s) \/ Abandoned(s)
                /\ ~(Delivered(s) /\ InSkipped(s))

\* sequences below nextSequence of each fate: delivered, skipped, abandoned
C2_Witness ==
    /\ lock = "none"
    /\ \E s, t, u \in Seqs :
         /\ s < nextSequence /\ t < nextSequence /\ u < nextSequence
         /\ Delivered(s) /\ ~InSkipped(s) /\ ~Abandoned(s)
         /\ InSkipped(t) /\ ~Delivered(t)
         /\ Abandoned(u) /\ ~Delivered(u) /\ ~InSkipped(u)

\* C3: whenever the coordinator lock is not held, every entry of pendingLogs
\* has a sequence strictly above nextSequence.
C3_PendingAboveNext ==
    lock = "none" => \A e \in pendingLogs : e.Sequence > nextSequence

\* an entry still waits after _addPendingLogs promoted another and skipped
C3_Witness ==
    /\ lock = "none" /\ pendingLogs # {} /\ skippedSeqs # <<>>
    /\ \E s \in Seqs : s > 1 /\ Delivered(s)

\* C4: no step of the feed, the housekeeping tasks, Clear or Stop decreases
\* nextSequence.
C4_NextSequenceMonotonic == [][nextSequence' >= nextSequence]_vars

\* the cache was cleared after deliveries and a skip, and stopped
C4_Witness ==
    /\ stopped /\ channelCaches = <<>> /\ nextSequence >= 3
    /\ \E s \in Seqs : Delivered(s)
    /\ abandoned # {} \/ skippedSeqs # <<>>

\* what the feed tasks and the skipped-sequence task can hand to
\* processEntry for a sequence
Submittable(seq) ==
    {[DocEntry(seq, ch) EXCEPT !.TimeReceived = now] : ch \in Channels}
    \cup {[Placeholder(seq) EXCEPT !.TimeReceived = now],
          [PrincipalEntry(seq) EXCEPT !.TimeReceived = now]}
    \cup {[ViewEntry(seq) EXCEPT !.Skipped = TRUE, !.Channels = (ch :> 0)] : ch \in Channels}

NoRepeat(q) == \A i, j \in 1..Len(q) : i # j => q[i] # q[j]

CallSeqs(name) == [i \in 1..Len(cacheCalls[name]) |-> cacheCalls[name][i].Sequence]

AtMostOnce ==
    /\ \A s \in Seqs : applied[s] <= 1
    /\ \A name \in AllChannels : NoRepeat(CallSeqs(name))

\* C5: processEntry for a sequence already in receivedSeqs, from the feed or
\* from the skipped-sequence task, returns no changed channel and leaves
\* nextSequence, pendingLogs, the skipped list and the channel caches as they
\* are; no sequence is applied twice and no channel cache is handed a sequence
\* twice.
C5_DuplicateIgnored ==
    /\ \A seq \in receivedSeqs : \A change \in Submittable(seq) :
          LET d == Result(change)
          IN  /\ Returns(change)
              /\ d.changed = {}
              /\ d.next = nextSequence
              /\ d.pending = pendingLogs
              /\ d.skipped = skippedSeqs
              /\ d.caches = channelCaches
              /\ d.calls = cacheCalls
    /\ AtMostOnce

\* the feed and the skipped-sequence task have both had a duplicate ignored
C5_Witness ==
    /\ dropped = {"feed", "heal"}
    /\ \E s \in receivedSeqs : applied[s] = 1 /\ s \in Range(CallSeqs(UserStarChannel))

NonContiguous(S) == \A a, b \in S : a + 1 # b
NoneTimedOut == \A e \in pendingLogs : now - e.TimeReceived < CachePendingSeqMaxWait

\* the step in which sequence s arrives as the (maxPendingNum+1)-th pending
\* entry: the entries are not contiguous, all above nextSequence, none timed out
OverflowStep(s) ==
    /\ lock = "none"
    /\ s \notin receivedSeqs /\ s \in receivedSeqs'
    /\ s > nextSequence
    /\ Cardinality(pendingLogs) = CachePendingSeqMaxNum
    /\ NoneTimedOut
    /\ NonContiguous(PendingSeqs \cup {s})

Promoted == SkippedSet(skippedSeqs') \ SkippedSet(skippedSeqs)

\* C6, as the specification states it: the overflow promotes exactly one
\* sequence to the skipped list.
C6_ExactlyOnePromoted ==
    [][\A s \in Seqs : OverflowStep(s) => Cardinality(Promoted) = 1]_vars

\* C6, amended: the overflow promotes to the skipped list every sequence from
\* nextSequence up to the lowest pending one, which is at least one sequence;
\* the lowest pending entry is then delivered and the others keep waiting.
C6_GapPromoted ==
    [][\A s \in Seqs : OverflowStep(s) =>
          LET lowest == SetMin(PendingSeqs \cup {s})
          IN  /\ Promoted = nextSequence..(lowest - 1)
              /\ Promoted # {}
              /\ nextSequence' = lowest + 1
              /\ {e.Sequence : e \in pendingLogs'} = (PendingSeqs \cup {s}) \ {lowest}]_vars

\* 3 and 5 arrived while 1 was awaited: 1 and 2 are skipped, 3 is delivered
C6_Witness ==
    /\ lock = "none" /\ now = 0 /\ receivedSeqs = {3, 5}
    /\ SkippedSet(skippedSeqs) = {1, 2} /\ Delivered(3) /\ PendingSeqs = {5}

\* the documents received are those of S, each in channel ch alone
Docs(S, ch) ==
    receivedSeqs = S /\ \A s \in S : accepted[s] = [doc |-> "doc", channels |-> {ch}]

\* no sequence was ever skipped
NeverSkipped ==
    /\ skippedSeqs = <<>> /\ abandoned = {}
    /\ \A name \in AllChannels :
         \A i \in 1..Len(cacheCalls[name]) : ~cacheCalls[name][i].Skipped

C7_Healed ==
    (lock = "none" /\ initialSequence = 0 /\ NeverSkipped /\ Docs({1, 2, 3}, "A")) =>
        /\ LastSequence = 3 /\ pendingLogs = {} /\ skippedSeqs = <<>>
        /\ CallSeqs("A") = <<1, 2, 3>>

\* C7, as the specification states it: after 1 and 3 in channel A,
\* LastSequence() is 2 and 3 is pending; after 2 in channel A, LastSequence()
\* is 3, nothing is pending or skipped and channel A was given 1, 2, 3.
C7_LastSequenceTwo ==
    /\ (lock = "none" /\ initialSequence = 0 /\ NeverSkipped /\ Docs({1, 3}, "A")) =>
          LastSequence = 2 /\ PendingSeqs = {3}
    /\ C7_Healed

\* C7, amended: after 1 and 3 in channel A, LastSequence() is 1 (sequence 2 is
\* awaited) and 3 is pending; after 2 in channel A, LastSequence() is 3,
\* nothing is pending or skipped and channel A was given 1, 2, 3, in this
\* order.
C7_LastSequenceOne ==
    /\ (lock = "none" /\ initialSequence = 0 /\ NeverSkipped /\ Docs({1, 3}, "A")) =>
          LastSequence = 1 /\ PendingSeqs = {3}
    /\ C7_Healed

C7_Witness ==
    /\ lock = "none" /\ initialSequence = 0 /\ NeverSkipped /\ Docs({1, 2, 3}, "A")
    /\ now = 0 /\ dropped = {}

\* a step of CleanUp that moved nextSequence
TimeoutStep ==
    /\ lock = "none" /\ lock' \in {"none", "cleanup"}
    /\ receivedSeqs' = receivedSeqs /\ nextSequence' # nextSequence

\* _addToCache has called channelCache.addToCache of channel `name` for e
InMainBuffer(e, name, calls) ==
    \E i \in 1..Len(calls[name]) : calls[name][i].Sequence = e.Sequence

\* _addToCache has called channelCache.AddLateSequence of channel `name` for e
InLateQueue(e, name, calls) ==
    \E i \in 1..Len(calls[name]) :
        calls[name][i].Sequence = e.Sequence /\ calls[name][i].Skipped

\* C8: when the wait of the lowest pending entry has expired, CleanUp puts the
\* sequences awaited below it in the skipped list and LastSequence() moves to
\* the last pending sequence delivered (3 after 1 and 3); a document that then
\* arrives for a sequence in the skipped list is marked skipped and added to
\* the main buffer and to the late queue of its channels, and its sequence is
\* removed from the skipped list before processEntry returns.
C8_TimeoutThenLate ==
    [][/\ TimeoutStep =>
            /\ pendingLogs # {} /\ GiveUp(pendingLogs)
            /\ nextSequence..(SetMin(PendingSeqs) - 1) \subseteq Promoted
            /\ applied'[SetMin(PendingSeqs)] = 1
            /\ (Docs({1, 3}, "A") /\ initialSequence = 0 /\ PendingSeqs = {3}) =>
                  (SkippedSet(skippedSeqs') = {2} /\ LastSequence' = 3)
       /\ (lock = "none" /\ lock' \in Tasks) =>
            /\ cur'.Skipped = (InSkipped(cur'.Sequence) \/ lock' = "skipclean")
            /\ (InSkipped(cur'.Sequence) /\ cur'.DocID = "doc") =>
                  \A name \in DOMAIN cur'.Channels \cup {UserStarChannel} :
                      /\ InMainBuffer(cur', name, cacheCalls')
                      /\ InLateQueue(cur', name, cacheCalls')
       /\ (lock \in Tasks /\ lock' = "none") =>
            cur.Sequence \notin SkippedSet(skippedSeqs')]_vars

\* 1 and 3 arrived, 2 was skipped after the wait, then arrived in channel B
C8_Witness ==
    /\ lock = "none" /\ initialSequence = 0
    /\ receivedSeqs = {1, 2, 3} /\ accepted[2] = [doc |-> "doc", channels |-> {"B"}]
    /\ LastSequence = 3 /\ skippedSeqs = <<>> /\ abandoned = {}
    /\ cacheCalls["B"] = <<[Sequence |-> 2, Skipped |-> TRUE]>>
    /\ "B" \in DOMAIN channelCaches

\* a feed task has made the last call of an unused-range event
RangeDone(p) == pc[p] = "wait" /\ todo[p] = <<>> /\ kind[p] = "range"

\* C9, as the specification states it: an unused-range marker of three
\* sequences, none of them received before, advances nextSequence, and so
\* LastSequence(), by 3; no channel cache is affected and the listener is not
\* notified.
C9_AdvancesByThree ==
    \A p \in Producers :
        (RangeDone(p) /\ dropped = {}) =>
            /\ evStat[p].advanced = 3
            /\ ~evStat[p].cachesChanged
            /\ notified[p] = {}

\* C9, amended: when each sequence of the range arrives as nextSequence with
\* nothing pending (from 2 to 4 here, met at LastSequence() = 1), the
\* placeholders advance nextSequence, and so LastSequence(), by the length of
\* the range, 3; none of the calls changes a channel cache or has the
\* listener notified.
C9_UnusedRange ==
    \A p \in Producers :
        (RangeDone(p) /\ evStat[p].ok) =>
            /\ \E r \in UnusedRanges : evStat[p].advanced = r[2] - r[1] + 1
            /\ evStat[p].advanced = 3
            /\ ~evStat[p].cachesChanged
            /\ notified[p] = {}

\* the range from 2 to 4 was taken at LastSequence() = 1, now 4
C9_Witness ==
    \E p \in Producers :
        /\ RangeDone(p) /\ evStat[p].ok /\ evStat[p].advanced = 3
        /\ initialSequence = 1 /\ LastSequence = 4 /\ channelCaches = <<>>

\* the step in which CleanSkippedSequenceQueue purges the sequences not found
PurgeStep == pcS = "process" /\ pcS' = "select"

\* C10: the purge of one run removes from the skipped list the expired
\* sequences the query did not return, and adds to abandoned_seqs the number
\* it removed; a sequence of the snapshot that has left the list meanwhile is
\* not counted.  After 1 and 3 with 2 never found: the list is empty,
\* abandoned_seqs is 1 and LastSequence() is 3.
C10_Abandonment ==
    [][/\ PurgeStep =>
            LET removed == SkippedSet(skippedSeqs) \ SkippedSet(skippedSeqs')
            IN  /\ removed = Range(pendingRemovals) \cap SkippedSet(skippedSeqs)
                /\ abandoned_seqs' = abandoned_seqs + Cardinality(removed)
                /\ Range(pendingRemovals) \cap SkippedSet(skippedSeqs') = {}
                /\ \A i \in 1..Len(skippedSeqs) :
                     skippedSeqs[i].seq \in removed =>
                        now - skippedSeqs[i].timeAdded > CacheSkippedSeqMaxWait
       /\ ~PurgeStep => abandoned_seqs' = abandoned_seqs
       /\ (lock' = "none" /\ initialSequence' = 0 /\ receivedSeqs' = {1, 3}
           /\ abandoned' = {2}) =>
             (skippedSeqs' = <<>> /\ abandoned_seqs' = 1 /\ LastSequence' = 3)]_vars

\* 1 and 3 arrived, 2 was skipped, expired, not found and purged
C10_Witness ==
    /\ lock = "none" /\ pcS = "select" /\ initialSequence = 0
    /\ receivedSeqs = {1, 3} /\ abandoned = {2}
    /\ skippedSeqs = <<>> /\ abandoned_seqs = 1 /\ LastSequence = 3
\* ---------------------------------------------------------------- C11..C20
\* the principal documents processEntry accepted and _addToCache applied
PrincipalApplied ==
    {s \in DOMAIN accepted : accepted[s].doc = "_user/x" /\ applied[s] >= 1}

\* the entry processPrincipalDoc submits for a sequence
PrincipalChange(seq) == [PrincipalEntry(seq) EXCEPT !.TimeReceived = now]

\* C11, as the specification states it: a principal document is a placeholder:
\* it is handed to no channel cache, the star channel's included, and its
\* processEntry call reports no channel as changed because of it.
C11_PrincipalIsPlaceholder ==
    /\ \A s \in PrincipalApplied :
          \A name \in AllChannels : s \notin Range(CallSeqs(name))
    /\ \A seq \in PrincipalSeqs :
          (lock = "none" /\ Branch(PrincipalChange(seq)) \in {"next", "late"}) =>
              UserStarChannel \notin Result(PrincipalChange(seq)).changed

\* C11, amended: a principal document advances the sequence state machine
\* and is handed to no named channel's cache, but it carries a document id
\* ("_user/<name>" or "_role/<name>"), so _addToCache hands it to the star
\* channel's cache, exactly once, and its processEntry call reports the star
\* channel, and no named channel on its account, as changed; while it waits in
\* pendingLogs nothing is reported.
C11_PrincipalInStarChannel ==
    /\ \A s \in PrincipalApplied :
          /\ \A name \in Channels : s \notin Range(CallSeqs(name))
          /\ Cardinality({i \in 1..Len(CallSeqs(UserStarChannel)) :
                            CallSeqs(UserStarChannel)[i] = s}) = 1
    /\ \A seq \in PrincipalSeqs :
          LET change == PrincipalChange(seq)
              d == Result(change)
          IN  lock = "none" =>
                /\ Branch(change) \in {"next", "late"} =>
                      /\ UserStarChannel \in d.changed
                      /\ d.applied[seq] = applied[seq] + 1
                      /\ FanOutChannels(change) = {UserStarChannel}
                /\ Branch(change) = "late" => d.changed = {UserStarChannel}
                /\ (Branch(change) = "pending" /\ d.applied[seq] = applied[seq]) =>
                      d.changed = {}

\* the principal document of sequence 1 arrived late, after 1 was skipped, and
\* is in the star channel's cache
C11_Witness ==
    /\ lock = "none" /\ 1 \in PrincipalApplied
    /\ 1 \in Range(CallSeqs(UserStarChannel))
    /\ \E i \in 1..Len(cacheCalls[UserStarChannel]) :
          cacheCalls[UserStarChannel][i] = [Sequence |-> 1, Skipped |-> TRUE]
    /\ Cardinality(receivedSeqs) >= 2

\* the tasks that are inside the listener callback with c.lock held: the feed
\* tasks and the skipped-sequence task call notifyChange after processEntry
\* has returned, CleanUp calls it before its deferred Unlock
ListenerUnderLock == {t \in {"cleanup"} : lock = t /\ ret # {}}

\* C12: every call of the listener callback (by DocChanged, an unused-sequence
\* marker, a principal document, the pending-timeout task and the
\* skipped-sequence task) is made while the calling task does not hold the
\* coordinator lock.
C12_ListenerOutsideLock == ListenerUnderLock = {}

\* a step of one of the two background tasks of Init
HousekeepingStep ==
    \/ CleanUp \/ CleanUpNotified
    \/ CleanSkippedSequenceQueue \/ GetDocumentFails \/ ProcessFound
    \/ (lock = "skipclean" /\ RemoveSkipped)
    \/ PurgeNotFound

\* C13: Stop closes the terminator and waits for both background tasks to
\* end, so once Stop has returned no housekeeping step changes nextSequence,
\* pendingLogs, the skipped list or a channel cache.
C13_NoHousekeepingAfterStop ==
    [][(stopped /\ HousekeepingStep) =>
          UNCHANGED <<nextSequence, pendingLogs, skippedSeqs, channelCaches>>]_vars

\* the skipped entries of a channel's main buffer that are not in its late queue
MissingFromLate(name) ==
    {i \in 1..Len(channelCaches[name].logs) :
        /\ channelCaches[name].logs[i].Skipped
        /\ channelCaches[name].logs[i].Sequence \notin Range(channelCaches[name].late)}

\* C14: an entry with skipped = true is in a channel's late queue no later
\* than it is in that channel's main buffer: in no state, the ones a reader
\* can observe between two calls on the channel cache included, is the entry
\* in the main buffer and not yet in the late queue.
C14_LateNoLaterThanMain ==
    \A name \in DOMAIN channelCaches : MissingFromLate(name) = {}

\* C15, as the specification states it: the skipped list, read head to tail,
\* is strictly increasing in sequence and strictly increasing in timeAdded.
C15_StrictlyIncreasingBoth ==
    \A i \in 1..(Len(skippedSeqs) - 1) :
        /\ skippedSeqs[i].seq < skippedSeqs[i + 1].seq
        /\ skippedSeqs[i].timeAdded < skippedSeqs[i + 1].timeAdded

\* C15, amended: the skipped list, read head to tail, is strictly increasing
\* in sequence and non-decreasing in timeAdded, and no timeAdded lies in the
\* future.
C15_IncreasingSeqOrderedTime ==
    /\ \A i \in 1..(Len(skippedSeqs) - 1) :
          /\ skippedSeqs[i].seq < skippedSeqs[i + 1].seq
          /\ skippedSeqs[i].timeAdded <= skippedSeqs[i + 1].timeAdded
    /\ \A i \in 1..Len(skippedSeqs) : skippedSeqs[i].timeAdded <= now

\* one _addPendingLogs loop pushed two sequences at the same reading of the
\* clock, and a later one pushed a third
C15_Witness ==
    /\ Len(skippedSeqs) >= 3
    /\ skippedSeqs[1].timeAdded = skippedSeqs[2].timeAdded
    /\ skippedSeqs[2].timeAdded < skippedSeqs[3].timeAdded

\* C16: whenever nextSequence is greater than the largest sequence of any
\* entry observed so far (the sequences processEntry recorded in
\* receivedSeqs), pendingLogs is empty.
C16_PendingEmptyWhenAhead ==
    (\A s \in receivedSeqs : nextSequence > s) => pendingLogs = {}

\* the only entry observed waited in pendingLogs, the sequences below it were
\* given up, and it was delivered: nextSequence is past everything observed
C16_Witness ==
    /\ lock = "none" /\ receivedSeqs # {} /\ skippedSeqs # <<>>
    /\ nextSequence = SetMax(receivedSeqs) + 1
    /\ applied[SetMax(receivedSeqs)] = 1
    /\ SetMax(receivedSeqs) \notin SkippedSet(skippedSeqs)
    /\ pendingLogs = {}

\* C17: pendingLogs is bounded by CachePendingSeqMaxNum: after every
\* processEntry call has returned (in every state between two calls, and while
\* a late entry is added to the caches) the number of entries in pendingLogs
\* is at most CachePendingSeqMaxNum, an overflow having promoted the missing
\* sequences to the skipped list until the head of the heap could be popped.
C17_PendingBounded ==
    /\ Cardinality(pendingLogs) <= CachePendingSeqMaxNum
    /\ \A seq \in DocSeqs : \A ch \in DocChannels(seq) :
          LET change == [DocEntry(seq, ch) EXCEPT !.TimeReceived = now]
              d == Result(change)
              pushed == pendingLogs \cup {change}
          IN  (lock = "none" /\ Branch(change) = "pending"
                 /\ Cardinality(pushed) > CachePendingSeqMaxNum) =>
                /\ Cardinality(d.pending) <= CachePendingSeqMaxNum
                /\ d.applied[PendingHead(pushed).Sequence] = 1
                /\ \A s \in nextSequence..(PendingHead(pushed).Sequence - 1) :
                      s \in SkippedSet(d.skipped)

\* the heap overflowed before any wait expired: sequences were promoted to the
\* skipped list, and the heap is full again
C17_Witness ==
    /\ lock = "none" /\ now = 0
    /\ skippedSeqs # <<>>
    /\ Cardinality(pendingLogs) = CachePendingSeqMaxNum
    /\ \E s \in Seqs : applied[s] = 1

\* the entry of sequence s leaves pendingLogs
Popped(s) == s \in PendingSeqs /\ s \notin {e.Sequence : e \in pendingLogs'}

C20_StoppedCacheUnavailable ==
    (reader.at = "idle" /\ reader.afterStop) =>
        /\ reader.op = "GetChanges" => reader.error = 503
        /\ reader.entries = <<>>

\* C21: between Init and Start the cache is locked: no feed event,
\* housekeeping run or reader call reads or changes the coordinator's state
\* before Start has set initialSequence and nextSequence = initialSequence + 1;
\* the calls take effect afterwards only, and LastSequence() right after Start
\* is the backing store's last assigned sequence.
C21_LockedUntilStarted ==
    [][/\ lock = "init" =>
            \/ UNCHANGED <<nextSequence, initialSequence, receivedSeqs, pendingLogs,
                           channelCaches, logsDisabled, skipVars, histVars, reader>>
            \/ lock' # "init"
       /\ (lock = "init" /\ lock' # "init") =>
            /\ nextSequence' = initialSequence' + 1
            /\ LastSequence' \in InitialSeqs
       /\ (lock # "init" /\ (receivedSeqs' # receivedSeqs \/ reader' # reader)) =>
            nextSequence >= initialSequence + 1]_vars

\* ------------------------------------------------------------ SequenceID
\* the call has formatted its arguments; it has parsed the strings
Formatted == fn.op = "Before" /\ fn.at \in {"formatted", "parsed", "done"}
Parsed == fn.op = "Before" /\ fn.at \in {"parsed", "done"}
Compared == fn.op = "Before" /\ fn.at # "args"
Lower(a, b) == IF a < b THEN a ELSE b

\* C22 (as stated): for every integer SequenceID s, any combination of seq,
\* triggeredBy and lowSeq, parsing the string s is formatted to gives a
\* SequenceID with the seq, triggeredBy and lowSeq of s.
C22_RoundTrip ==
    Parsed => fn.parsed.err = "" /\ fn.parsed.s = fn.s

\* C22 (amended): parsing the string s is formatted to succeeds and gives the
\* seq and triggeredBy of s, and its lowSeq when that is below seq; a lowSeq
\* that is not below seq comes back as 0.
C22_RoundTripBelowSeq ==
    Parsed =>
        /\ fn.parsed.err = ""
        /\ fn.parsed.s = [fn.s EXCEPT !.LowSeq = IF fn.s.LowSeq < fn.s.Seq
                                                 THEN fn.s.LowSeq ELSE 0]

C22_Witness ==
    /\ Parsed /\ fn.s = ExampleLow /\ fn.parsed.s = ExampleLow
    /\ fn.s2.LowSeq > 0 /\ fn.s2.LowSeq >= fn.s2.Seq /\ fn.parsed2.s.LowSeq = 0

\* C23: for any two SequenceIDs a and b with a.Before(b), the SequenceIDs
\* parsed from their strings are in that order too: parse(format(a)) is
\* Before parse(format(b)).
C23_OrderKept ==
    (fn.op = "Before" /\ fn.at = "done" /\ fn.before) => fn.beforeParsed

C25_YNotBeforeX ==
    (Compared /\ fn.s = ExampleY /\ fn.s2 = ExampleX) => ~fn.before

\* C25 (amended): a triggered y is Before an untriggered x exactly when
\* y.triggeredBy is at most the safe sequence of x; for x = {seq:10} and
\* y = {triggeredBy:8, seq:20}, y.Before(x) is true.
C25_TriggeredBeforeUntriggered ==
    Compared =>
        /\ (fn.s.TriggeredBy > 0 /\ fn.s2.TriggeredBy = 0) =>
               (fn.before <=> fn.s.TriggeredBy <= SafeSequence(fn.s2))
        /\ (fn.s = ExampleY /\ fn.s2 = ExampleX) => fn.before

C25_Witness ==
    /\ Compared /\ fn.s = ExampleY /\ fn.s2 = ExampleX /\ fn.before

\* C26: the safe sequence the comparator uses is the lower of lowSeq and seq
\* when lowSeq is not zero, and seq when it is; two SequenceIDs with the same
\* triggeredBy are ordered by that value.
C26_SafeIsLower ==
    LET safe(x) == IF x.LowSeq # 0 THEN Lower(x.LowSeq, x.Seq) ELSE x.Seq
    IN  Compared =>
            /\ SafeSequence(fn.s) = safe(fn.s)
            /\ fn.s.TriggeredBy = fn.s2.TriggeredBy =>
                   (fn.before <=> safe(fn.s) < safe(fn.s2))

IsNumber(component) ==
    component # <<>> /\ \A i \in 1..Len(component) : IsDigit(component[i])
HasSequenceForm(str) ==
    LET components == Split(str)
    IN  /\ Len(components) \in 1..3
        /\ \A i \in 1..Len(components) :
               \/ IsNumber(components[i])
               \/ Len(components) = 3 /\ i = 2 /\ components[i] = <<>>

\* C28: parsing accepts the strings of the three forms and no others; for any
\* other string (the empty string, which comes back as the zero SequenceID
\* without an error, set aside) it returns an error of HTTP status 400.
C28_OtherInputsAre400 ==
    (fn.op = "parseIntegerSequenceID" /\ fn.at = "done" /\ fn.str # <<>>) =>
        IF HasSequenceForm(fn.str) THEN fn.parsed.err = ""
                                   ELSE fn.parsed.err = "HTTP400"

\* C29: a Push of a sequence that is not above the tail's returns an error
\* and leaves the list and the map as they were; a Push of a sequence above
\* the tail's, or onto an empty list, appends the element at the tail and
\* makes Contains true for its sequence.
C29_PushAboveTailOnly ==
    (fn.op = "Push" /\ fn.at = "done") =>
        LET list == fn.l.skippedList
        IN  IF list # <<>> /\ fn.x.seq <= list[Len(list)].seq
            THEN fn.err # "" /\ fn.pushed = fn.l
            ELSE /\ fn.err = ""
                 /\ fn.pushed.skippedList = Append(list, fn.x)
                 /\ Contains(fn.pushed, fn.x.seq)
                 /\ \A seq \in DOMAIN fn.l.skippedMap :
                        Contains(fn.pushed, seq)
                            /\ fn.pushed.skippedMap[seq] = fn.l.skippedMap[seq]

C29_Witness ==
    /\ fn.op = "Push" /\ fn.at = "done" /\ fn.err # ""
    /\ fn.x.seq = fn.l.skippedList[Len(fn.l.skippedList)].seq
    /\ Contains(fn.l, fn.x.seq) /\ fn.pushed = fn.l

\* the document event of feed task p with recent sequences is under way
RecentEvent(p) == kind[p] = "recent"

\* C30: a document event that lists its own sequence among its recent
\* sequences submits no placeholder for that sequence, so its main entry is
\* not dropped as a duplicate of a placeholder of the same event; the
\* placeholders it submits for recent sequences are for sequences seq with
\* nextSequence <= seq < currentSequence only.
C30_NoPlaceholderForOwnSequence ==
    \A p \in Producers :
        RecentEvent(p) =>
            /\ \A r \in evStat[p].placeholders :
                   /\ r.seq # evStat[p].sequence
                   /\ r.next <= r.seq /\ r.seq < evStat[p].currentSequence
            /\ evStat[p].main = "duplicate" =>
                   evStat[p].sequence \notin {r.seq : r \in evStat[p].placeholders}
            /\ (evStat[p].main \notin {"", "duplicate"}) =>
                   accepted[evStat[p].sequence].doc = "doc"

C30_Witness ==
    /\ RecentEvent("p1") /\ evStat["p1"].listsOwn
    /\ evStat["p1"].placeholders # {}
    /\ evStat["p1"].main \notin {"", "duplicate"}
    /\ accepted[evStat["p1"].sequence].doc = "doc"
    /\ \E r \in evStat["p1"].placeholders : accepted[r.seq].doc = ""

\* C31: after a complete run of the skipped-sequence task whose batch queries
\* all succeeded, no sequence of the expired snapshot the run started from is
\* in the skipped list: the ones the store returned went through processEntry
\* and were removed, the others, and the ones whose document lookup failed,
\* were abandoned and removed.
C31_SweepClearsSnapshot ==
    [][(PurgeStep /\ failedSeqs = {}) =>
          \A s \in Range(snapshot) : s \notin SkippedSet(skippedSeqs')]_vars

\* ------------------------------------------- late arrival against the sweep
\* the late case of processEntry taken one channel cache call at a time, next
\* to the skipped-sequence task, whose RemoveSkippedSequences takes only the
\* skipped list's own lock
NextLateSweep ==
    \/ Start
    \/ Tick
    \/ DocChangedLate("p1")
    \/ AddToChannel \/ AddLateSequence
    \/ RemoveSkipped
    \/ CleanUp \/ CleanUpNotified
    \/ CleanSkippedSequenceQueue \/ GetDocumentFails \/ ProcessFound
    \/ PurgeNotFound

SpecLateSweep == Init /\ [][NextLateSweep]_vars

\* processEntry holds the coordinator lock for a document it found in the
\* skipped list
LateInFlight == lock \in Tasks /\ cur.DocID # "" /\ cur.Skipped

\* the entry in flight has reached the main buffer of each of its channels
Readable == \A name \in FanOutChannels(cur) : InMainBuffer(cur, name, cacheCalls)

\* C32: while processEntry handles a late sequence that it found in the skipped
\* list, the sequence is never absent from both the skipped list and the
\* channel caches: it is in the skipped list until its entry is in the main
\* buffer of every channel it fans out to
C32_InListOrReadable ==
    LateInFlight => (cur.Sequence \in SkippedSet(skippedSeqs) \/ Readable)

\* processEntry's own RemoveSkipped comes after its inserts: the sequence in
\* flight is missing from both places only once the skipped-sequence task
\* has abandoned it
InListOrReadableOrAbandoned ==
    LateInFlight =>
        \/ cur.Sequence \in SkippedSet(skippedSeqs)
        \/ Readable
        \/ cur.Sequence \in abandoned

\* a feed task enters the late case of processEntry with a document
LateFromFeed == lock = "none" /\ lock' \in Producers /\ cur'.DocID # ""

\* C33: an entry the feed delivers late (initialSequence < sequence <
\* nextSequence) is flagged skipped exactly when its sequence is in the skipped
\* list as processEntry takes it; flagged or not, _addToCache adds it to the
\* main buffer of its channels and of the star channel and of no other channel,
\* and calls AddLateSequence on those channels exactly when it is flagged, so
\* an entry whose sequence is no longer in the skipped list (one already
\* abandoned) is in the main buffers, unflagged and in no late queue
C33_FlaggedIffSkipped ==
    [][LateFromFeed =>
         /\ initialSequence < cur'.Sequence /\ cur'.Sequence < nextSequence
         /\ cur'.Skipped <=> InSkipped(cur'.Sequence)
         /\ \A name \in AllChannels :
              LET target == name \in FanOutChannels(cur')
              IN  /\ InMainBuffer(cur', name, cacheCalls') <=> target
                  /\ InLateQueue(cur', name, cacheCalls') <=>
                         (target /\ InSkipped(cur'.Sequence))]_vars

\* a sequence that was abandoned has arrived from the feed: unflagged, added
\* to the main buffer of channel A and to no late queue, while another late
\* entry went into a late queue before
C33_Witness ==
    /\ lock \in Producers /\ cur.DocID # "" /\ ~cur.Skipped
    /\ cur.Sequence \in abandoned
    /\ InMainBuffer(cur, "A", cacheCalls)
    /\ \A name \in AllChannels : ~InLateQueue(cur, name, cacheCalls)
    /\ \E name \in AllChannels : \E i \in 1..Len(cacheCalls[name]) :
           cacheCalls[name][i].Skipped

\* ---------------------------------------------------------- a disabled cache
\* the feed against EnableChannelIndexing and Stop: documents and an
\* unused-range event, whose calls of processEntry the switch can fall between
NextDisabled ==
    \/ Start
    \/ Tick
    \/ DocChanged("p1")
    \/ processUnusedSequenceRange("p1") \/ Submit("p1") \/ FinishRange("p1")
    \/ RemoveSkipped
    \/ CleanUp \/ CleanUpNotified
    \/ EnableChannelIndexing
    \/ StopClose \/ Stop

SpecDisabled == Init /\ [][NextDisabled]_vars

\* a step of DocChangedSynchronous that calls processEntry
FeedCall == DocChanged("p1") \/ processUnusedSequenceRange("p1") \/ Submit("p1")

\* C34: while logsDisabled is true, after Stop or EnableChannelIndexing(false),
\* processEntry is a no-op: whatever entry it is given it returns at once with
\* no changed channel, and a call from the feed leaves receivedSeqs,
\* nextSequence, pendingLogs, the skipped list and the channel caches as they
\* are and takes no lock with it, so a sequence delivered meanwhile is not in
\* receivedSeqs when the cache is enabled again
C34_DisabledIsNoOp ==
    /\ [](logsDisabled =>
            \A seq \in Seqs : \A change \in Submittable(seq) :
                /\ Branch(change) = "disabled"
                /\ Returns(change)
                /\ Result(change) = Coord)
    /\ [][(logsDisabled /\ FeedCall) =>
            /\ UNCHANGED <<receivedSeqs, nextSequence, pendingLogs, skippedSeqs,
                           channelCaches, initialSequence>>
            /\ UNCHANGED <<lockVars, applied, cacheCalls, accepted, dropped>>
            /\ notified'["p1"] \subseteq notified["p1"]]_vars

\* an unused-range event over 2..4 is through: its call for 3 fell into a
\* time when the cache was disabled, the cache is enabled again, and 3 is not
\* in receivedSeqs while 2 and 4 are
C34_Witness ==
    /\ RangeDone("p1") /\ ~logsDisabled /\ ~stopped
    /\ {2, 4} \subseteq receivedSeqs /\ 3 \notin receivedSeqs

\* ------------------------------------------------- _addToCache on any entry
\* the channel maps of the entries handed to _addToCache: a channel is absent,
\* present without a removal (0), or removed at a sequence
ChannelMaps ==
    UNION {[names -> 0..MaxComponent] : names \in SUBSET Channels}

AddToCacheCalls ==
    {[op |-> "_addToCache", at |-> "args",
      change |-> [Sequence |-> seq, DocID |-> doc, Channels |-> ch,
                  Skipped |-> skipped, TimeReceived |-> 0],
      changed |-> {}] :
        seq \in 1..MaxComponent, doc \in {"doc", ""}, ch \in ChannelMaps,
        skipped \in BOOLEAN}

InitFanOut == CacheInit /\ fn \in AddToCacheCalls

\* _addToCache on the cache as Start left it
CallAddToCache ==
    /\ fn.op = "_addToCache" /\ fn.at = "args" /\ lock = "none"
    /\ LET d == addToCache(Coord, fn.change)
       IN  /\ nextSequence' = d.next
           /\ channelCaches' = d.caches
           /\ applied' = d.applied
           /\ cacheCalls' = d.calls
           /\ fn' = [fn EXCEPT !.at = "done", !.changed = d.changed]
    /\ UNCHANGED <<logsDisabled, stopped, terminated, initialSequence, receivedSeqs,
                   pendingLogs>>
    /\ UNCHANGED <<lockVars, skipVars, taskVars, bgVars, now, reader>>
    /\ UNCHANGED <<abandoned, accepted, dropped, notified, evStat>>

NextFanOut == Start \/ CallAddToCache

SpecFanOut == InitFanOut /\ [][NextFanOut]_vars

\* _addToCache has returned for an entry with a document
FannedOut == fn.op = "_addToCache" /\ fn.at = "done" /\ fn.change.DocID # ""

\* C35: _addToCache inserts an entry that is no placeholder into the cache of
\* channel c exactly when the entry's channel map has c without a removal or
\* with a removal at the entry's own sequence, and into the star channel's
\* cache; the set it returns is the set of those channels; and it calls
\* AddLateSequence on exactly those channels when the entry is skipped and on
\* none when it is not
C35_FanOutRule ==
    FannedOut =>
        LET change == fn.change
            ch == change.Channels
            expected == {c \in DOMAIN ch : ch[c] = 0 \/ ch[c] = change.Sequence}
                            \cup {UserStarChannel}
        IN  /\ fn.changed = expected
            /\ \A name \in AllChannels :
                 /\ InMainBuffer(change, name, cacheCalls) <=> name \in expected
                 /\ InLateQueue(change, name, cacheCalls) <=>
                        (name \in expected /\ change.Skipped)
                 /\ Len(cacheCalls[name]) = IF name \in expected THEN 1 ELSE 0

\* a skipped entry of sequence 2 in channel A and removed from B at sequence 1
\* went to A and the star channel and to their late queues, and not to B
C35_Witness ==
    /\ FannedOut /\ fn.change.Skipped /\ fn.change.Sequence = 2
    /\ fn.change.Channels = [A |-> 0, B |-> 1]
    /\ fn.changed = {"A", UserStarChannel}
    /\ InLateQueue(fn.change, "A", cacheCalls)
    /\ ~InMainBuffer(fn.change, "B", cacheCalls)

\* C36: Before is a strict ordering of the integer SequenceIDs: no SequenceID
\* is before itself, two SequenceIDs are never each before the other, and
\* a.Before(b) with b.Before(c) implies a.Before(c), for a and b the operands
\* of the call and c any SequenceID of the bounded set
C36_StrictOrder ==
    Compared =>
        /\ fn.s = fn.s2 => ~fn.before
        /\ fn.before => ~Before(fn.s2, fn.s)
        /\ fn.before =>
             \A c \in SequenceIDs : Before(fn.s2, c) => Before(fn.s, c)

\* an untriggered SequenceID came out before a triggered one, which is before
\* a second untriggered one
C36_Witness ==
    /\ Compared /\ fn.before
    /\ fn.s.TriggeredBy = 0 /\ fn.s2.TriggeredBy > 0
    /\ \E c \in SequenceIDs :
          c.TriggeredBy = 0 /\ Before(fn.s2, c) /\ Before(fn.s, c)

\* C37: once Start has returned, and after Clear as well, initialSequence is
\* below nextSequence: the cache never expects a sequence that
\* DocChangedSynchronous drops as one from before it started
C37_InitialBelowNext == lock # "init" => initialSequence < nextSequence

\* every received sequence above initialSequence waits in pendingLogs or has
\* been applied
ReceivedKept ==
    \A s \in receivedSeqs :
        s > initialSequence => (s \in PendingSeqs \/ Delivered(s))

\* C38: no received sequence is lost: between processEntry calls, after Clear
\* as well, every sequence of receivedSeqs above initialSequence is still in
\* pendingLogs or has been applied (delivered, or consumed as a placeholder),
\* and no sequence is both in receivedSeqs and in the skipped list, where a
\* later delivery by the feed or by the skipped-sequence task would be dropped
\* as a duplicate
C38_NoReceivedLost ==
    lock = "none" =>
        /\ ReceivedKept
        /\ \A s \in receivedSeqs : ~InSkipped(s)

\* the skipped list is below nextSequence and apart from pendingLogs, so that
\* Push accepts nextSequence whenever the drain loop gives up on it
SkippedBelowNext ==
    /\ \A s \in SkippedSet(skippedSeqs) : s < nextSequence /\ s \notin PendingSeqs
    /\ skippedSeqs # <<>> => skippedSeqs[Len(skippedSeqs)].seq < nextSequence
    /\ PushSkipped(skippedSeqs, nextSequence) # skippedSeqs

\* C39: every sequence in the skipped list is above initialSequence, below
\* nextSequence and not in pendingLogs, so the PushSkipped(nextSequence) of the
\* drain loop is above the list's tail and is never rejected
C39_SkippedInWindow ==
    /\ \A s \in SkippedSet(skippedSeqs) : initialSequence < s
    /\ SkippedBelowNext

\* ------------------------------------------------- the drain loop, turn by turn
\* the turns the loop of _addPendingLogs is followed for: every pending entry
\* popped and every sequence skipped, and some to spare
DrainTurns == 2 * MaxSeq + 2

\* the loop of _addPendingLogs followed for at most `turns` turns: whether it
\* returned, what it left, and whether each forced skip was of a sequence
\* below the head of the heap
RECURSIVE addPendingLogsWithin(_, _, _)
addPendingLogsWithin(d, turns, below) ==
    IF d.pending = {} THEN [d |-> d, returned |-> TRUE, below |-> below]
    ELSE IF turns = 0 THEN [d |-> d, returned |-> FALSE, below |-> below]
    ELSE LET change == PendingHead(d.pending)
         IN  IF isNext(change, d.next)
             THEN addPendingLogsWithin(
                      addToCache([d EXCEPT !.pending = @ \ {change}], change),
                      turns - 1, below)
             ELSE IF GiveUp(d.pending)
             THEN addPendingLogsWithin(
                      [d EXCEPT !.skipped = PushSkipped(@, d.next), !.next = @ + 1],
                      turns - 1, below /\ d.next < change.Sequence)
             ELSE [d |-> d, returned |-> TRUE, below |-> below]

\* the states _addPendingLogs is entered in from the current state: by
\* CleanUp, by processEntry after the next sequence was added, and by
\* processEntry after a push that made the heap overflow
DrainEntries ==
    {Coord}
    \cup {addToCache(Coord, change) :
            change \in {c \in UNION {Submittable(seq) : seq \in Seqs} :
                          Branch(c) = "next"}}
    \cup {[Coord EXCEPT !.pending = @ \cup {change}] :
            change \in {c \in UNION {Submittable(seq) : seq \in Seqs} :
                          /\ Branch(c) = "pending"
                          /\ Cardinality(pendingLogs \cup {c}) > CachePendingSeqMaxNum}}

\* C40: _addPendingLogs terminates: entered from any reachable state it
\* returns within the turns its pops and skips can take, every forced skip is
\* of a sequence below the head of the heap (so at most head - nextSequence
\* skips come before a pop), and when it returns pendingLogs is empty or its
\* head is above nextSequence, has not timed out, and pendingLogs holds at most
\* CachePendingSeqMaxNum entries
C40_DrainTerminates ==
    lock = "none" =>
        \A d \in DrainEntries :
            \E r \in {addPendingLogsWithin(d, DrainTurns, TRUE)} :
                /\ r.returned /\ r.below
                /\ r.d = addPendingLogs(d)
                /\ r.d.pending # {} =>
                     /\ PendingHead(r.d.pending).Sequence > r.d.next
                     /\ Cardinality(r.d.pending) <= CachePendingSeqMaxNum
                     /\ now - PendingHead(r.d.pending).TimeReceived < CachePendingSeqMaxWait

\* CleanUp is about to enter the loop with one entry waiting, at least two
\* sequences above nextSequence and timed out: the loop skips the sequences
\* below the entry, pops it, and returns with nothing waiting
C40_Witness ==
    /\ lock = "none" /\ Cardinality(pendingLogs) = 1 /\ skippedSeqs = <<>>
    /\ \E r \in {addPendingLogsWithin(Coord, DrainTurns, TRUE)} :
          /\ r.returned
          /\ r.d.pending = {} /\ Len(r.d.skipped) >= 2
          /\ r.d.next > nextSequence + 2

=============================================================================
